---- MODULE Spec2Model ----
(***************************************************************************)
(* The FANTOIR import of datagouv_tools: the record catalog and the        *)
(* classifier, the line transcoder, the CSVStream queue adapter, the       *)
(* Dispatcher, and the two import modes (one consumer thread per record    *)
(* format fed by a producer thread, or temporary files loaded one after    *)
(* the other).                                                             *)
(*                                                                         *)
(* A character is a one-character string, except the characters TLA+      *)
(* strings cannot hold: "NUL" is U+0000, "e_acute", "e_grave" and          *)
(* "a_grave" are the accented letters of the field descriptions, "U+0300"  *)
(* and "U+0301" the combining accents.  A str is a sequence of characters, *)
(* a bytes object a sequence of integers in 0..255.                        *)
(***************************************************************************)
EXTENDS Integers, Sequences, FiniteSets, TLC

(***************************************************************************)
(* Bounds of the model.                                                    *)
(***************************************************************************)
\* lines of the input file the dispatcher reads before the end of the file
MaxLines == 2
\* items (rows or the sentinel) sent to the CSVStream of the unit scenario
MaxSend == 3

(***************************************************************************)
(* Characters, str and bytes.                                              *)
(***************************************************************************)
CodePoint ==
    ("NUL" :> 0) @@ ("\t" :> 9) @@ ("\n" :> 10) @@ (" " :> 32) @@ ("'" :> 39) @@
    ("*" :> 42) @@ ("-" :> 45) @@ ("0" :> 48) @@ ("1" :> 49) @@ ("2" :> 50) @@
    ("3" :> 51) @@ ("4" :> 52) @@ ("5" :> 53) @@ ("6" :> 54) @@ ("7" :> 55) @@
    ("8" :> 56) @@ ("9" :> 57) @@ ("A" :> 65) @@ ("B" :> 66) @@ ("C" :> 67) @@
    ("D" :> 68) @@ ("E" :> 69) @@ ("F" :> 70) @@ ("G" :> 71) @@ ("H" :> 72) @@
    ("I" :> 73) @@ ("J" :> 74) @@ ("K" :> 75) @@ ("L" :> 76) @@ ("M" :> 77) @@
    ("N" :> 78) @@ ("O" :> 79) @@ ("P" :> 80) @@ ("Q" :> 81) @@ ("R" :> 82) @@
    ("S" :> 83) @@ ("T" :> 84) @@ ("U" :> 85) @@ ("V" :> 86) @@ ("W" :> 87) @@
    ("X" :> 88) @@ ("Y" :> 89) @@ ("Z" :> 90) @@ ("_" :> 95) @@ ("a" :> 97) @@
    ("b" :> 98) @@ ("c" :> 99) @@ ("d" :> 100) @@ ("e" :> 101) @@ ("f" :> 102) @@
    ("g" :> 103) @@ ("h" :> 104) @@ ("i" :> 105) @@ ("j" :> 106) @@
    ("k" :> 107) @@ ("l" :> 108) @@ ("m" :> 109) @@ ("n" :> 110) @@
    ("o" :> 111) @@ ("p" :> 112) @@ ("q" :> 113) @@ ("r" :> 114) @@
    ("s" :> 115) @@ ("t" :> 116) @@ ("u" :> 117) @@ ("v" :> 118) @@
    ("w" :> 119) @@ ("x" :> 120) @@ ("y" :> 121) @@ ("z" :> 122) @@
    ("a_grave" :> 224) @@ ("e_grave" :> 232) @@ ("e_acute" :> 233) @@
    ("U+0300" :> 768) @@ ("U+0301" :> 769)

LowerCase ==
    ("A" :> "a") @@ ("B" :> "b") @@ ("C" :> "c") @@ ("D" :> "d") @@
    ("E" :> "e") @@ ("F" :> "f") @@ ("G" :> "g") @@ ("H" :> "h") @@
    ("I" :> "i") @@ ("J" :> "j") @@ ("K" :> "k") @@ ("L" :> "l") @@
    ("M" :> "m") @@ ("N" :> "n") @@ ("O" :> "o") @@ ("P" :> "p") @@
    ("Q" :> "q") @@ ("R" :> "r") @@ ("S" :> "s") @@ ("T" :> "t") @@
    ("U" :> "u") @@ ("V" :> "v") @@ ("W" :> "w") @@ ("X" :> "x") @@
    ("Y" :> "y") @@ ("Z" :> "z")

Min(a, b) == IF a <= b THEN a ELSE b

SetMin(S) == CHOOSE x \in S : \A y \in S : x <= y

SetMax(S) == CHOOSE x \in S : \A y \in S : y <= x

\* s[a:b] of Python for 0 <= a <= b: the slice is clipped to the length of s
PySlice(s, a, b) == SubSeq(s, a + 1, Min(b, Len(s)))

\* s[a:] of Python for 0 <= a
PyFrom(s, a) == SubSeq(s, a + 1, Len(s))

RECURSIVE Flatten(_)
Flatten(ss) == IF ss = <<>> THEN <<>> ELSE Head(ss) \o Flatten(Tail(ss))

\* sep.join(parts)
RECURSIVE Join(_, _)
Join(sep, parts) ==
    IF parts = <<>> THEN <<>>
    ELSE IF Len(parts) = 1 THEN Head(parts)
    ELSE Head(parts) \o sep \o Join(sep, Tail(parts))

\* the characters str.strip() removes, among the characters of the model
WHITESPACE == {" ", "\t", "\n"}

\* s.strip(chars): chars is the set of characters removed at both ends
StripChars(s, chars) ==
    LET keep == {k \in 1..Len(s) : s[k] \notin chars}
    IN  IF keep = {} THEN <<>> ELSE SubSeq(s, SetMin(keep), SetMax(keep))

Strip(s) == StripChars(s, WHITESPACE)

\* line.rstrip("\n")
RStripNewline(s) ==
    LET keep == {k \in 1..Len(s) : s[k] # "\n"}
    IN  IF keep = {} THEN <<>> ELSE SubSeq(s, 1, SetMax(keep))

\* codecs.getencoder("ascii")(text)[0]; every character the import encodes
\* was decoded as ASCII or produced by to_standard
Encode(text) == [k \in 1..Len(text) |-> CodePoint[text[k]]]

\* the str whose ASCII encoding is the bytes object data
Decode(data) ==
    [k \in 1..Len(data) |->
        CHOOSE c \in DOMAIN CodePoint : CodePoint[c] = data[k]]

\* unicodedata.normalize('NFKD', c) for one character
NFKD(c) ==
    CASE c = "e_acute" -> <<"e", "U+0301">>
      [] c = "e_grave" -> <<"e", "U+0300">>
      [] c = "a_grave" -> <<"a", "U+0300">>
      [] OTHER -> <<c>>

\* sanitize(text): NFKD, then encode('ascii', 'ignore'), then decode
sanitize(text) ==
    LET nfkd == Flatten([k \in 1..Len(text) |-> NFKD(text[k])])
    IN  SelectSeq(nfkd, LAMBDA c : CodePoint[c] < 128)

\* str.casefold() on the characters of the model
casefold(text) ==
    [k \in 1..Len(text) |->
        IF text[k] \in DOMAIN LowerCase THEN LowerCase[text[k]] ELSE text[k]]

\* to_standard(text) = sanitize(text.replace(" ", "_")).casefold()
to_standard(text) ==
    casefold(sanitize([k \in 1..Len(text) |->
        IF text[k] = " " THEN "_" ELSE text[k]]))

(***************************************************************************)
(* The record catalog (import_fantoir.py).                                 *)
(***************************************************************************)
\* FantoirField.slice: slice(start - 1, start - 1 + length)
FieldSlice(start, length) == [lo |-> start - 1, hi |-> start - 1 + length]

\* the dataclass FantoirField with its properties slice and db_name
FantoirField(start, length, type, description, is_filler) ==
    [start |-> start, length |-> length, type |-> type,
     description |-> description, is_filler |-> is_filler,
     slice |-> FieldSlice(start, length),
     db_name |-> to_standard(description)]

\* the dataclass RecordFormat with what __post_init__ derives: _n_s, the
\* (db_name, slice) pairs of the non-filler fields, and header, their names
RecordFormat(name, fields) ==
    LET kept == SelectSeq(fields, LAMBDA f : ~f.is_filler)
    IN  [name |-> name, fields |-> fields,
         n_s |-> [k \in 1..Len(kept) |->
                    [n |-> kept[k].db_name, s |-> kept[k].slice]],
         header |-> [k \in 1..Len(kept) |-> kept[k].db_name]]

HEADER_FORMAT ==
    RecordFormat("header", <<
        FantoirField(1, 10, "X",
            <<>>, TRUE),
        FantoirField(12, 25, "X",
            <<"L","i","b","e","l","l","e_acute"," ","d","u"," ","c","e","n",
            "t","r","e"," ","d","e"," ","p","r","o","d","u","c","t","i","o",
            "n"," ","d","u"," ","f","i","c","h","i","e","r">>, FALSE),
        FantoirField(37, 8, "X",
            <<"D","a","t","e"," ","d","e"," ","s","i","t","u","a","t","i","o",
            "n"," ","d","u"," ","f","i","c","h","i","e","r">>, FALSE),
        FantoirField(45, 8, "X",
            <<"D","a","t","e"," ","d","e"," ","p","r","o","d","u","c","t","i",
            "o","n"," ","d","u"," ","f","i","c","h","i","e","r">>, FALSE),
        FantoirField(52, 98, "X",
            <<>>, TRUE)
    >>)

DIRECTION_FORMAT ==
    RecordFormat("direction", <<
        FantoirField(1, 2, "X",
            <<"C","o","d","e"," ","d","e_acute","p","a","r","t","e","m","e",
            "n","t">>, FALSE),
        FantoirField(3, 1, "X",
            <<"C","o","d","e"," ","d","i","r","e","c","t","i","o","n">>, FALSE),
        FantoirField(4, 8, "X",
            <<>>, TRUE),
        FantoirField(12, 30, "X",
            <<"L","i","b","e","l","l","e_acute"," ","D","i","r","e","c","t",
            "i","o","n">>, FALSE),
        FantoirField(42, 109, "X",
            <<>>, TRUE)
    >>)

COMMUNE_FORMAT ==
    RecordFormat("commune", <<
        FantoirField(1, 2, "X",
            <<"C","o","d","e"," ","d","e_acute","p","a","r","t","e","m","e",
            "n","t">>, FALSE),
        FantoirField(3, 1, "X",
            <<"C","o","d","e"," ","d","i","r","e","c","t","i","o","n">>, FALSE),
        FantoirField(4, 3, "X",
            <<"C","o","d","e"," ","c","o","m","m","u","n","e">>, FALSE),
        FantoirField(7, 4, "X",
            <<>>, TRUE),
        FantoirField(11, 1, "X",
            <<"C","l","e_acute"," ","R","I","V","O","L","I">>, FALSE),
        FantoirField(12, 30, "X",
            <<"L","i","b","e","l","l","e_acute"," ","C","o","m","m","u","n",
            "e">>, FALSE),
        FantoirField(42, 1, "X",
            <<>>, TRUE),
        FantoirField(43, 1, "X",
            <<"T","y","p","e"," ","d","e"," ","l","a"," ","c","o","m","m","u",
            "n","e">>, FALSE),
        FantoirField(44, 2, "X",
            <<>>, TRUE),
        FantoirField(46, 1, "X",
            <<"C","a","r","a","c","t","e_grave","r","e"," ","R","U","R">>, FALSE),
        FantoirField(47, 3, "X",
            <<>>, TRUE),
        FantoirField(50, 1, "X",
            <<"C","a","r","a","c","t","e_grave","r","e"," ","d","e"," ","p",
            "o","p","u","l","a","t","i","o","n">>, FALSE),
        FantoirField(51, 2, "X",
            <<>>, TRUE),
        FantoirField(53, 7, "9",
            <<"P","o","p","u","l","a","t","i","o","n"," ","r","e_acute","e",
            "l","l","e">>, FALSE),
        FantoirField(60, 7, "9",
            <<"P","o","p","u","l","a","t","i","o","n"," ","a_grave"," ","p",
            "a","r","t">>, FALSE),
        FantoirField(67, 7, "9",
            <<"P","o","p","u","l","a","t","i","o","n"," ","f","i","c","t","i",
            "v","e">>, FALSE),
        FantoirField(74, 1, "X",
            <<"C","a","r","a","c","t","e_grave","r","e"," ","d","a","n","n",
            "u","l","a","t","i","o","n">>, FALSE),
        FantoirField(75, 7, "9",
            <<"D","a","t","e"," ","d","a","n","n","u","l","a","t","i","o","n">>, FALSE),
        FantoirField(82, 7, "9",
            <<"D","a","t","e"," ","d","e"," ","c","r","e_acute","a","t","i",
            "o","n"," ","d","e"," ","l","a","r","t","i","c","l","e">>, FALSE),
        FantoirField(89, 42, "X",
            <<>>, TRUE)
    >>)

VOIE_FORMAT ==
    RecordFormat("voie", <<
        FantoirField(1, 2, "X",
            <<"C","o","d","e"," ","d","e_acute","p","a","r","t","e","m","e",
            "n","t">>, FALSE),
        FantoirField(3, 1, "X",
            <<"C","o","d","e"," ","d","i","r","e","c","t","i","o","n">>, FALSE),
        FantoirField(4, 3, "X",
            <<"C","o","d","e"," ","c","o","m","m","u","n","e">>, FALSE),
        FantoirField(7, 4, "X",
            <<"I","d","e","n","t","i","f","i","a","n","t"," ","d","e"," ","l",
            "a"," ","v","o","i","e"," ","d","a","n","s"," ","l","a"," ","c",
            "o","m","m","u","n","e">>, FALSE),
        FantoirField(11, 1, "X",
            <<"C","l","e_acute"," ","R","I","V","O","L","I">>, FALSE),
        FantoirField(12, 4, "X",
            <<"C","o","d","e"," ","n","a","t","u","r","e"," ","d","e"," ","v",
            "o","i","e">>, FALSE),
        FantoirField(16, 26, "X",
            <<"L","i","b","e","l","l","e_acute"," ","v","o","i","e">>, FALSE),
        FantoirField(42, 1, "X",
            <<>>, TRUE),
        FantoirField(43, 1, "X",
            <<"T","y","p","e"," ","d","e"," ","l","a"," ","c","o","m","m","u",
            "n","e">>, FALSE),
        FantoirField(44, 2, "X",
            <<>>, TRUE),
        FantoirField(46, 1, "X",
            <<"C","a","r","a","c","t","e_grave","r","e"," ","R","U","R">>, FALSE),
        FantoirField(47, 2, "X",
            <<>>, TRUE),
        FantoirField(49, 1, "X",
            <<"C","a","r","a","c","t","e_grave","r","e"," ","d","e"," ","v",
            "o","i","e">>, FALSE),
        FantoirField(50, 1, "X",
            <<"C","a","r","a","c","t","e_grave","r","e"," ","d","e"," ","p",
            "o","p","u","l","a","t","i","o","n">>, FALSE),
        FantoirField(51, 9, "X",
            <<>>, TRUE),
        FantoirField(60, 7, "9",
            <<"P","o","p","u","l","a","t","i","o","n"," ","a_grave"," ","p",
            "a","r","t">>, FALSE),
        FantoirField(67, 7, "9",
            <<"P","o","p","u","l","a","t","i","o","n"," ","f","i","c","t","i",
            "v","e">>, FALSE),
        FantoirField(74, 1, "X",
            <<"C","a","r","a","c","t","e_grave","r","e"," ","d","a","n","n",
            "u","l","a","t","i","o","n">>, FALSE),
        FantoirField(75, 7, "9",
            <<"D","a","t","e"," ","d","a","n","n","u","l","a","t","i","o","n">>, FALSE),
        FantoirField(82, 7, "9",
            <<"D","a","t","e"," ","d","e"," ","c","r","e_acute","a","t","i",
            "o","n"," ","d","e"," ","l","a","r","t","i","c","l","e">>, FALSE),
        FantoirField(89, 15, "X",
            <<>>, TRUE),
        FantoirField(104, 5, "X",
            <<"C","o","d","e"," ","i","d","e","n","t","i","f","i","a","n","t",
            " ","M","A","J","I","C"," ","d","e"," ","l","a"," ","v","o","i",
            "e">>, FALSE),
        FantoirField(109, 1, "X",
            <<"T","y","p","e"," ","d","e"," ","v","o","i","e">>, FALSE),
        FantoirField(110, 1, "X",
            <<"C","a","r","a","c","t","e_grave","r","e"," ","d","u"," ","l",
            "i","e","u","_","d","i","t">>, FALSE),
        FantoirField(111, 2, "X",
            <<>>, TRUE),
        FantoirField(113, 8, "X",
            <<"D","e","r","n","i","e","r"," ","m","o","t"," ","e","n","t","i",
            "e_grave","r","e","m","e","n","t"," ","a","l","p","h","a","b",
            "e_acute","t","i","q","u","e"," ","d","u"," ","l","i","b","e",
            "l","l","e_acute"," ","d","e"," ","l","a"," ","v","o","i","e">>, FALSE),
        FantoirField(121, 30, "X",
            <<>>, TRUE)
    >>)

RECORD_FORMATS ==
    <<HEADER_FORMAT, DIRECTION_FORMAT, COMMUNE_FORMAT, VOIE_FORMAT>>

FormatNames == {RECORD_FORMATS[k].name : k \in 1..Len(RECORD_FORMATS)}

FormatByName(name) ==
    RECORD_FORMATS[CHOOSE k \in 1..Len(RECORD_FORMATS) :
                       RECORD_FORMATS[k].name = name]

\* get_first_empty_slice_by_record()[record_format]: the slice of the first
\* filler field of the format
FirstEmptySlice(record_format) ==
    LET fillers == SelectSeq(record_format.fields, LAMBDA f : f.is_filler)
    IN  Head(fillers).slice

\* what get_record_format returns when no format matches (None in Python)
NoFormat == [name |-> "None"]

\* get_record_format with `return record_format` kept for after the loop:
\* the last format whose first filler slice is empty
get_record_format_last(line) ==
    LET blank(k) ==
            LET s == FirstEmptySlice(RECORD_FORMATS[k])
            IN  StripChars(PySlice(line, s.lo, s.hi), {" ", "NUL"}) = <<>>
        hits == {k \in 1..Len(RECORD_FORMATS) : blank(k)}
    IN  IF hits = {} THEN NoFormat ELSE RECORD_FORMATS[SetMax(hits)]

\* get_record_format(line): the first format whose first filler slice is
\* empty once spaces and NUL are stripped, or None
get_record_format(line) ==
    LET blank(k) ==
            LET s == FirstEmptySlice(RECORD_FORMATS[k])
            IN  StripChars(PySlice(line, s.lo, s.hi), {" ", "NUL"}) = <<>>
        hits == {k \in 1..Len(RECORD_FORMATS) : blank(k)}
    IN  IF hits = {} THEN NoFormat ELSE RECORD_FORMATS[SetMin(hits)]

\* RecordFormat.format(line): the dict {"record_type": name, **{n: line[s]}};
\* as in a dict, a later pair of _n_s replaces an earlier one of the same name
format(record_format, line) ==
    LET n_s == record_format.n_s
        last(key) == SetMax({k \in 1..Len(n_s) : n_s[k].n = key})
    IN  [key \in {<<"r","e","c","o","r","d","_","t","y","p","e">>}
                  \cup {n_s[k].n : k \in 1..Len(n_s)} |->
            IF \E k \in 1..Len(n_s) : n_s[k].n = key
            THEN PySlice(line, n_s[last(key)].s.lo, n_s[last(key)].s.hi)
            ELSE record_format.name]

\* RecordFormat.to_line(record)
to_line(record_format, record) ==
    Join(<<"\t">>, [k \in 1..Len(record_format.header) |->
                     Strip(record[record_format.header[k]])]) \o <<"\n">>

(***************************************************************************)
(* Lines of the input: the four lines of the test of get_record_format,    *)
(* and variants of them.                                                   *)
(***************************************************************************)
HEADER_LINE ==
    <<"NUL","NUL","NUL","NUL","NUL","NUL","NUL","NUL","NUL","NUL","NUL",
      "NUL","E","N","E","V","E","R","S"," "," "," "," "," "," "," "," "," ",
      " "," "," "," "," "," "," "," "," ","2","0","1","9","1","1","0","1",
      "2","0","1","9","3","0","8","0","0","0","0","0","0","0">>

DIRECTION_LINE ==
    <<"0","1","0"," "," "," "," "," "," "," "," ","A","I","N"," "," "," ",
      " "," "," "," "," "," "," "," "," "," "," "," "," "," "," "," "," ",
      " "," "," "," "," "," "," "," "," "," "," "," "," "," "," "," "," ",
      " "," "," "," "," "," "," "," ","0","0","0","0","0","0","0","0","0",
      "0","0","0","0","0"," ","0","0","0","0","0","0","0","0","0","0","0",
      "0","0","0">>

COMMUNE_LINE ==
    <<"0","1","0","0","0","1"," "," "," "," ","W","L","'","A","B","E","R",
      "G","E","M","E","N","T","-","C","L","E","M","E","N","C","I","A","T",
      " "," "," "," "," "," "," "," ","N"," "," ","3"," "," "," "," "," ",
      " ","0","0","0","0","8","2","5","0","0","0","0","0","0","0","0","0",
      "0","0","0","0","0"," ","0","0","0","0","0","0","0","1","9","8","7",
      "0","0","1">>

VOIE_LINE ==
    <<"0","1","0","0","0","1","A","0","0","8","W","L","O","T"," ","B","E",
      "L","L","E","V","U","E"," "," "," "," "," "," "," "," "," "," "," ",
      " "," "," "," "," "," "," "," ","N"," "," ","3"," "," ","0"," "," ",
      " "," "," "," "," "," "," "," ","0","0","0","0","0","0","0","0","0",
      "0","0","0","0","0"," ","0","0","0","0","0","0","0","2","0","0","1",
      "3","5","1"," "," "," "," "," "," "," "," "," "," "," "," "," "," ",
      " ","0","0","0","5","9","2"," "," "," ","B","E","L","L","E","V","U",
      "E">>
\* a second commune line: the commune line with code commune 002
COMMUNE_LINE_2 == [COMMUNE_LINE EXCEPT ![6] = "2"]

\* a line no format matches: the voie line with its byte 41 (0-based) filled
UNKNOWN_LINE == [VOIE_LINE EXCEPT ![42] = "X"]

\* the last line of a FANTOIR file: it starts with ten 9
SENTINEL_LINE == [k \in 1..10 |-> "9"] \o [k \in 1..20 |-> " "]

\* the kinds of lines an input file is made of; "undecodable" is a line
\* holding a byte above 127, that the ASCII TextIOWrapper cannot decode
LineKinds ==
    {"header", "direction", "commune", "commune_2", "voie", "unknown",
     "sentinel", "undecodable"}

\* the line of each kind, as the iteration over the file yields it
LineOf(kind) ==
    (CASE kind = "header" -> HEADER_LINE
       [] kind = "direction" -> DIRECTION_LINE
       [] kind = "commune" -> COMMUNE_LINE
       [] kind = "commune_2" -> COMMUNE_LINE_2
       [] kind = "voie" -> VOIE_LINE
       [] kind = "unknown" -> UNKNOWN_LINE
       [] kind = "sentinel" -> SENTINEL_LINE) \o <<"\n">>

(***************************************************************************)
(* CSVStream (util.py).                                                    *)
(***************************************************************************)
\* the end signal a producer sends: the None of Python, among the rows
None == <<"None">>

\* the size of the buffer of CSVStream.read
BUFFER_SIZE == 8192

\* CSVStream.__init__ with a header row that does not end with a newline
NewCSVStream_no_newline(header) ==
    [queue |-> <<>>,
     remaining_bytes |-> Encode(Join(<<"\t">>, header)),
     queue_ended |-> FALSE]

\* CSVStream.__init__(name, header, queue)
NewCSVStream(header) ==
    [queue |-> <<>>,
     remaining_bytes |-> Encode(Join(<<"\t">>, header) \o <<"\n">>),
     queue_ended |-> FALSE]

\* CSVStream.send that puts nothing falsy in the queue: the end signal is
\* dropped
send_no_end_signal(stream, data) ==
    IF data = None THEN stream ELSE [stream EXCEPT !.queue = Append(@, data)]

\* CSVStream.send(data)
send(stream, data) == [stream EXCEPT !.queue = Append(@, data)]

\* no readinto call is running
IdleFrame == [pc |-> "idle", len_b |-> 0, b |-> <<>>, i |-> 0]

\* CSVStream.readinto without `if self._queue_ended: return i`: an ended
\* stream goes on to self._queue.get()
readinto_enter_no_end_check(stream, len_b) ==
    LET i == Len(stream.remaining_bytes)
    IN  IF len_b <= i
        THEN [stream |-> [stream EXCEPT !.remaining_bytes = PyFrom(@, len_b)],
              frame |-> IdleFrame, returned |-> TRUE, ret |-> len_b,
              b |-> PySlice(stream.remaining_bytes, 0, len_b)]
        ELSE [stream |-> [stream EXCEPT !.remaining_bytes = <<>>],
              frame |-> [pc |-> "get", len_b |-> len_b,
                         b |-> stream.remaining_bytes, i |-> i],
              returned |-> FALSE, ret |-> 0, b |-> <<>>]

\* CSVStream.readinto without `self._remaining_bytes =
\* self._remaining_bytes[len_b:]`: the pending bytes that do not fit in the
\* buffer are dropped
readinto_enter_drop_rest(stream, len_b) ==
    LET i == Len(stream.remaining_bytes)
    IN  IF len_b <= i
        THEN [stream |-> [stream EXCEPT !.remaining_bytes = <<>>],
              frame |-> IdleFrame, returned |-> TRUE, ret |-> len_b,
              b |-> PySlice(stream.remaining_bytes, 0, len_b)]
        ELSE IF stream.queue_ended
        THEN [stream |-> [stream EXCEPT !.remaining_bytes = <<>>],
              frame |-> IdleFrame, returned |-> TRUE, ret |-> i,
              b |-> stream.remaining_bytes]
        ELSE [stream |-> [stream EXCEPT !.remaining_bytes = <<>>],
              frame |-> [pc |-> "get", len_b |-> len_b,
                         b |-> stream.remaining_bytes, i |-> i],
              returned |-> FALSE, ret |-> 0, b |-> <<>>]

\* CSVStream.readinto(b) with len(b) = len_b, from its first line to its
\* return or to its first self._queue.get().  b is the part of the buffer
\* written so far, b[:i]; ret is the value returned.
readinto_enter(stream, len_b) ==
    LET i == Len(stream.remaining_bytes)
    IN  IF len_b <= i
        THEN [stream |-> [stream EXCEPT !.remaining_bytes = PyFrom(@, len_b)],
              frame |-> IdleFrame, returned |-> TRUE, ret |-> len_b,
              b |-> PySlice(stream.remaining_bytes, 0, len_b)]
        ELSE IF stream.queue_ended
        THEN [stream |-> [stream EXCEPT !.remaining_bytes = <<>>],
              frame |-> IdleFrame, returned |-> TRUE, ret |-> i,
              b |-> stream.remaining_bytes]
        ELSE [stream |-> [stream EXCEPT !.remaining_bytes = <<>>],
              frame |-> [pc |-> "get", len_b |-> len_b,
                         b |-> stream.remaining_bytes, i |-> i],
              returned |-> FALSE, ret |-> 0, b |-> <<>>]

\* the loop of CSVStream.readinto without
\* `self._remaining_bytes = data[room_b:]`: what does not fit in the buffer
\* is lost
readinto_get_lossy(stream, frame) ==
    LET csv_line == Head(stream.queue)
        rest == [stream EXCEPT !.queue = Tail(@)]
        data == Encode(csv_line)
        next_i == frame.i + Len(data)
        room_b == frame.len_b - frame.i
    IN  IF csv_line = None
        THEN [stream |-> [rest EXCEPT !.queue_ended = TRUE],
              frame |-> IdleFrame, returned |-> TRUE, ret |-> frame.i,
              b |-> frame.b]
        ELSE IF next_i >= frame.len_b
        THEN [stream |-> rest,
              frame |-> IdleFrame, returned |-> TRUE, ret |-> frame.len_b,
              b |-> frame.b \o PySlice(data, 0, room_b)]
        ELSE [stream |-> rest,
              frame |-> [frame EXCEPT !.b = @ \o data, !.i = next_i],
              returned |-> FALSE, ret |-> 0, b |-> <<>>]

\* the loop of CSVStream.readinto returning as soon as one item was copied,
\* as a socket read does: a short read on a stream that has not ended
readinto_get_short(stream, frame) ==
    LET csv_line == Head(stream.queue)
        rest == [stream EXCEPT !.queue = Tail(@)]
        data == Encode(csv_line)
        next_i == frame.i + Len(data)
        room_b == frame.len_b - frame.i
    IN  IF csv_line = None
        THEN [stream |-> [rest EXCEPT !.queue_ended = TRUE],
              frame |-> IdleFrame, returned |-> TRUE, ret |-> frame.i,
              b |-> frame.b]
        ELSE IF next_i >= frame.len_b
        THEN [stream |-> [rest EXCEPT !.remaining_bytes = PyFrom(data, room_b)],
              frame |-> IdleFrame, returned |-> TRUE, ret |-> frame.len_b,
              b |-> frame.b \o PySlice(data, 0, room_b)]
        ELSE [stream |-> rest,
              frame |-> IdleFrame, returned |-> TRUE, ret |-> next_i,
              b |-> frame.b \o data]

\* the loop of CSVStream.readinto without `self._queue_ended = True`: the
\* end signal ends the call, not the stream
readinto_get_no_end_flag(stream, frame) ==
    LET csv_line == Head(stream.queue)
        rest == [stream EXCEPT !.queue = Tail(@)]
        data == Encode(csv_line)
        next_i == frame.i + Len(data)
        room_b == frame.len_b - frame.i
    IN  IF csv_line = None
        THEN [stream |-> rest,
              frame |-> IdleFrame, returned |-> TRUE, ret |-> frame.i,
              b |-> frame.b]
        ELSE IF next_i >= frame.len_b
        THEN [stream |-> [rest EXCEPT !.remaining_bytes = PyFrom(data, room_b)],
              frame |-> IdleFrame, returned |-> TRUE, ret |-> frame.len_b,
              b |-> frame.b \o PySlice(data, 0, room_b)]
        ELSE [stream |-> rest,
              frame |-> [frame EXCEPT !.b = @ \o data, !.i = next_i],
              returned |-> FALSE, ret |-> 0, b |-> <<>>]

\* the loop of CSVStream.readinto with `self._remaining_bytes =
\* data[:room_b]`: the bytes copied are kept pending, the others are lost
readinto_get_keeps_head(stream, frame) ==
    LET csv_line == Head(stream.queue)
        rest == [stream EXCEPT !.queue = Tail(@)]
        data == Encode(csv_line)
        next_i == frame.i + Len(data)
        room_b == frame.len_b - frame.i
    IN  IF csv_line = None
        THEN [stream |-> [rest EXCEPT !.queue_ended = TRUE],
              frame |-> IdleFrame, returned |-> TRUE, ret |-> frame.i,
              b |-> frame.b]
        ELSE IF next_i >= frame.len_b
        THEN [stream |-> [rest EXCEPT
                             !.remaining_bytes = PySlice(data, 0, room_b)],
              frame |-> IdleFrame, returned |-> TRUE, ret |-> frame.len_b,
              b |-> frame.b \o PySlice(data, 0, room_b)]
        ELSE [stream |-> rest,
              frame |-> [frame EXCEPT !.b = @ \o data, !.i = next_i],
              returned |-> FALSE, ret |-> 0, b |-> <<>>]

\* one turn of the loop of CSVStream.readinto: self._queue.get() has an item
\* to return
readinto_get(stream, frame) ==
    LET csv_line == Head(stream.queue)
        rest == [stream EXCEPT !.queue = Tail(@)]
        data == Encode(csv_line)
        next_i == frame.i + Len(data)
        room_b == frame.len_b - frame.i
    IN  IF csv_line = None
        THEN [stream |-> [rest EXCEPT !.queue_ended = TRUE],
              frame |-> IdleFrame, returned |-> TRUE, ret |-> frame.i,
              b |-> frame.b]
        ELSE IF next_i >= frame.len_b
        THEN [stream |-> [rest EXCEPT !.remaining_bytes = PyFrom(data, room_b)],
              frame |-> IdleFrame, returned |-> TRUE, ret |-> frame.len_b,
              b |-> frame.b \o PySlice(data, 0, room_b)]
        ELSE [stream |-> rest,
              frame |-> [frame EXCEPT !.b = @ \o data, !.i = next_i],
              returned |-> FALSE, ret |-> 0, b |-> <<>>]

\* a read that hands readinto a buffer of the size asked for, whatever it is
read_len_unclipped(size) == IF size < 0 THEN BUFFER_SIZE ELSE size

\* the length of the buffer CSVStream.read(size) hands to readinto
read_len(size) == IF size < 0 \/ size >= BUFFER_SIZE THEN BUFFER_SIZE ELSE size

(***************************************************************************)
(* State.                                                                  *)
(***************************************************************************)
VARIABLES
    mode,         \* "stream": one CSVStream and its reader, as in test_util;
                  \* "threads": import_fantoir_thread; "temp": import_fantoir;
                  \* "call": one function called on its own
    dry_run,      \* the connections are FakeConnection: calls are only logged
    file,         \* the kinds of the lines read from the input so far
    count,        \* count of Dispatcher._dispatch_byte_stream
    producer_pc,  \* where the dispatching code is
    end_sent,     \* end signals sent so far by dispatch_records
    send_log,     \* every call of send_to so far: [name, line]
    streams,      \* name -> CSVStream
    frames,       \* name -> the running readinto call of the reader
    received,     \* name -> the bytes the reader was returned so far
    last_read,    \* name -> [len_b, ret, at_end] of the last readinto that
                  \* returned; at_end: the stream had ended when it was called
    first_zero,   \* name -> [seen, bytes]: the bytes returned before the
                  \* first call that returned 0 bytes
    sent,         \* the items sent to the stream of the unit scenario
    consumer_pc,  \* name -> where the consumer thread is
    calls,        \* name -> the executor calls of the load of that table
    tables,       \* name -> [exists, rows]: the table in the database
    temp_files,   \* name -> [text, open]: the temporary file
    orch_pc,      \* where _import_with_threads or _import_with_temp is
    orch_idx,     \* the index of its running loop
    call,         \* mode "call": the function called and its arguments
    result        \* mode "call": what the call returned or raised

vars ==
    <<mode, dry_run, file, count, producer_pc, end_sent, send_log, streams,
      frames, received, last_read, first_zero, sent, consumer_pc, calls,
      tables, temp_files, orch_pc, orch_idx, call, result>>

\* what no step of a stream or of an import changes
config_vars == <<mode, dry_run, call, result>>

stream_vars == <<streams, frames, received, last_read, first_zero>>

dispatch_vars == <<file, count, producer_pc, end_sent, send_log>>

load_vars == <<consumer_pc, calls, tables>>

\* the reader of stream name was returned ret bytes, out, by a readinto on a
\* buffer of len_b bytes
Returned(name, len_b, ret, out) ==
    /\ received' = [received EXCEPT ![name] = @ \o out]
    /\ last_read' = [last_read EXCEPT ![name] =
                         [len_b |-> len_b, ret |-> ret,
                          at_end |-> streams[name].queue_ended]]
    /\ first_zero' =
           [first_zero EXCEPT ![name] =
               IF @.seen THEN @
               ELSE IF ret = 0 THEN [seen |-> TRUE, bytes |-> received[name]]
               ELSE [seen |-> FALSE, bytes |-> <<>>]]

\* no function is called in the modes of the streams and of the imports
NoCall == [op |-> "none"]

\* the call has not returned yet
Pending == [returned |-> FALSE]

NoRead == [len_b |-> -1, ret |-> -1, at_end |-> FALSE]

(***************************************************************************)
(* The unit scenario of test_util: a CSVStream of header a, b, c, a        *)
(* producer that sends rows and end signals, a reader that calls read.     *)
(***************************************************************************)
TEST_STREAM == "test stream"

TEST_HEADER == <<<<"a">>, <<"b">>, <<"c">>>>

\* the rows sent: the row of the test, a row that ends a line, the empty str
TestRows ==
    {<<"0", "1", "2", "3", "4", "5", "6", "7", "8", "9">>, <<"x", "\n">>, <<>>}

\* the sizes read is called with; -1 is the default of read
ReadSizes == {-1, 0, 1, 2, 5, 10}

InitStream ==
    /\ mode = "stream"
    /\ dry_run = FALSE
    /\ file = <<>>
    /\ count = 0
    /\ producer_pc = "unstarted"
    /\ end_sent = 0
    /\ send_log = <<>>
    /\ streams = [n \in {TEST_STREAM} |-> NewCSVStream(TEST_HEADER)]
    /\ frames = [n \in {TEST_STREAM} |-> IdleFrame]
    /\ received = [n \in {TEST_STREAM} |-> <<>>]
    /\ last_read = [n \in {TEST_STREAM} |-> NoRead]
    /\ first_zero = [n \in {TEST_STREAM} |-> [seen |-> FALSE, bytes |-> <<>>]]
    /\ sent = <<>>
    /\ consumer_pc = <<>>
    /\ calls = <<>>
    /\ tables = <<>>
    /\ temp_files = <<>>
    /\ orch_pc = "none"
    /\ orch_idx = 0
    /\ call = NoCall
    /\ result = Pending

\* stream.send(item)
StreamSend(item) ==
    /\ mode = "stream"
    /\ Len(sent) < MaxSend
    /\ streams' = [streams EXCEPT ![TEST_STREAM] = send(@, item)]
    /\ sent' = Append(sent, item)
    /\ UNCHANGED <<config_vars, dispatch_vars, frames, received, last_read,
                   first_zero, load_vars, temp_files, orch_pc, orch_idx>>

\* stream.read(size), or stream.readinto(b) with len(b) = size >= 0, up to
\* its return or to its first blocking get
StreamRead(size) ==
    /\ mode = "stream"
    /\ frames[TEST_STREAM].pc = "idle"
    /\ LET r == readinto_enter(streams[TEST_STREAM], read_len(size))
       IN  /\ streams' = [streams EXCEPT ![TEST_STREAM] = r.stream]
           /\ frames' = [frames EXCEPT ![TEST_STREAM] = r.frame]
           /\ IF r.returned
              THEN Returned(TEST_STREAM, read_len(size), r.ret, r.b)
              ELSE UNCHANGED <<received, last_read, first_zero>>
    /\ UNCHANGED <<config_vars, dispatch_vars, sent, load_vars, temp_files,
                   orch_pc, orch_idx>>

\* the blocked get of the running read returns an item
StreamGet ==
    /\ mode = "stream"
    /\ frames[TEST_STREAM].pc = "get"
    /\ streams[TEST_STREAM].queue # <<>>
    /\ LET r == readinto_get(streams[TEST_STREAM], frames[TEST_STREAM])
       IN  /\ streams' = [streams EXCEPT ![TEST_STREAM] = r.stream]
           /\ frames' = [frames EXCEPT ![TEST_STREAM] = r.frame]
           /\ IF r.returned
              THEN Returned(TEST_STREAM, frames[TEST_STREAM].len_b, r.ret, r.b)
              ELSE UNCHANGED <<received, last_read, first_zero>>
    /\ UNCHANGED <<config_vars, dispatch_vars, sent, load_vars, temp_files,
                   orch_pc, orch_idx>>

NextStream ==
    \/ \E item \in TestRows \cup {None} : StreamSend(item)
    \/ \E size \in ReadSizes : StreamRead(size)
    \/ StreamGet

SpecStream == InitStream /\ [][NextStream]_vars

(***************************************************************************)
(* The database side of a table load.                                      *)
(***************************************************************************)
\* the lines of data whose newlines are at the positions nl: each ends at a
\* newline, the newline dropped; what follows the last newline is a line
split_lines(data, nl) ==
    LET n == Cardinality(nl)
        end(j) == CHOOSE p \in nl : Cardinality({q \in nl : q <= p}) = j
        start(j) == IF j = 1 THEN 1 ELSE end(j - 1) + 1
        last == IF n = 0 THEN 0 ELSE end(n)
    IN  [j \in 1..n |-> SubSeq(data, start(j), end(j) - 1)]
        \o (IF last < Len(data)
            THEN <<SubSeq(data, last + 1, Len(data))>> ELSE <<>>)

\* the lines of a bytes object
Lines(data) ==
    CHOOSE lines \in {split_lines(data, nl) :
                         nl \in {{k \in 1..Len(data) : data[k] = 10}}} : TRUE

\* the lines after the first one, decoded
skip_header(lines) ==
    IF lines = <<>> THEN <<>>
    ELSE [k \in 1..Len(lines) - 1 |-> Decode(lines[k + 1])]

\* the rows COPY table FROM STDIN WITH (FORMAT CSV, HEADER TRUE, ...) loads
\* from the bytes it was given: the first line is the header and is skipped
copy_stream(data) ==
    CHOOSE rows \in {skip_header(lines) : lines \in {Lines(data)}} : TRUE

NoTable == [exists |-> FALSE, rows |-> <<>>]

\* write_table up to the call of copy_table: the executor calls
write_table_before_copy ==
    <<"drop_table", "create_table", "prepare_copy", "commit", "copy_stream">>

\* a write_table that creates the indices before it finalizes the copy
write_table_indices_first ==
    <<"create_indices", "commit", "finalize_copy", "commit">>

\* write_table after copy_table has returned
write_table_after_copy ==
    <<"finalize_copy", "commit", "create_indices", "commit">>

(***************************************************************************)
(* import_fantoir_thread and import_fantoir (import_fantoir.py).           *)
(***************************************************************************)
Init ==
    /\ mode \in {"threads", "temp"}
    /\ dry_run \in BOOLEAN
    /\ file = <<>>
    /\ count = 0
    /\ producer_pc = IF mode = "threads" THEN "unstarted" ELSE "dispatch"
    /\ end_sent = 0
    /\ send_log = <<>>
    /\ streams = [n \in (IF mode = "threads" THEN FormatNames ELSE {}) |->
                     NewCSVStream(FormatByName(n).header)]
    /\ frames = [n \in DOMAIN streams |-> IdleFrame]
    /\ received = [n \in DOMAIN streams |-> <<>>]
    /\ last_read = [n \in DOMAIN streams |-> NoRead]
    /\ first_zero = [n \in DOMAIN streams |-> [seen |-> FALSE, bytes |-> <<>>]]
    /\ sent = <<>>
    /\ consumer_pc = [n \in DOMAIN streams |-> "unstarted"]
    /\ calls = [n \in FormatNames |-> <<>>]
    /\ tables = [n \in FormatNames |-> NoTable]
    /\ temp_files = [n \in (IF mode = "temp" THEN FormatNames ELSE {}) |->
                        [text |-> <<>>, open |-> TRUE]]
    /\ orch_pc = IF mode = "threads" THEN "start" ELSE "dispatch"
    /\ orch_idx = 1
    /\ call = NoCall
    /\ result = Pending

\* the test of the last line against a literal of nine 9: it never holds
is_last_line_nine(line) == PySlice(line, 0, 10) = [k \in 1..9 |-> "9"]

\* a test of the last line on the whole line: line == '9999999999'
is_last_line_whole(line) == line = [k \in 1..10 |-> "9"]

\* line[:10] == '9999999999'
is_last_line(line) == PySlice(line, 0, 10) = [k \in 1..10 |-> "9"]

\* send_to handed the name of the last format whatever the line
send_to_name_last(record_format) == RECORD_FORMATS[Len(RECORD_FORMATS)].name

\* the name _dispatch_byte_stream hands to send_to for a classified line
send_to_name(record_format) == record_format.name

\* send_to of dispatch_records on last in, first out queues
send_to_stream_lifo(name, csv_line) ==
    [streams EXCEPT ![name] = [@ EXCEPT !.queue = <<csv_line>> \o @]]

\* send_to(name, csv_line) of dispatch_records: the CSVStream of that name
\* is sent the line
send_to_stream(name, csv_line) ==
    [streams EXCEPT ![name] = send(@, csv_line)]

\* send_to(name, csv_line) of dispatch_to_temp: the line is written to the
\* file of that name
send_to_temp(name, csv_line) ==
    [temp_files EXCEPT ![name].text = @ \o csv_line]

\* the maxsize of the queue.Queue() of a destination: no argument, hence 0,
\* which stands for a queue without bound
QUEUE_MAXSIZE == 0

\* a queue of capacity one (queue.Queue(1))
full_at_one(queue) == Len(queue) >= 1

\* a queue of capacity two (queue.Queue(2))
full_at_two(queue) == Len(queue) >= 2

\* queue.put(data) waits while the queue is full: maxsize > 0 and
\* qsize() >= maxsize
full(queue) == QUEUE_MAXSIZE > 0 /\ Len(queue) >= QUEUE_MAXSIZE

\* a call of send_to; send_log keeps its name and the number of the line of
\* the input it is made for, 0 when it sends the end signal.  In threaded
\* mode the put of CSVStream.send goes through once the queue is not full.
SendTo(name, line, csv_line) ==
    /\ mode = "threads" => ~full(streams[name].queue)
    /\ send_log' = Append(send_log, [name |-> name, line |-> line])
    /\ IF mode = "threads"
       THEN streams' = send_to_stream(name, csv_line) /\ UNCHANGED temp_files
       ELSE temp_files' = send_to_temp(name, csv_line) /\ UNCHANGED streams

\* _dispatch_byte_stream with a line whose record is known: its row is sent
dispatch_record(record_format, record) ==
    [counted |-> TRUE, sends |-> TRUE,
     name |-> send_to_name(record_format),
     csv_line |-> to_line(record_format, record)]

\* a _dispatch_byte_stream that counts a line only once its format is known
dispatch_format_uncounted(record_format, line) ==
    IF record_format # NoFormat
    THEN CHOOSE d \in {dispatch_record(record_format, record) :
                          record \in {format(record_format, line)}} : TRUE
    ELSE [counted |-> FALSE, sends |-> FALSE]

\* _dispatch_byte_stream once get_record_format has returned: the line is
\* sent `if record_format is not None and record_format`
dispatch_format(record_format, line) ==
    IF record_format # NoFormat
    THEN CHOOSE d \in {dispatch_record(record_format, record) :
                          record \in {format(record_format, line)}} : TRUE
    ELSE [counted |-> TRUE, sends |-> FALSE]

\* _dispatch_byte_stream with a line that is not the last line: it is
\* counted, stripped of its newline and classified
dispatch_line(line) ==
    CHOOSE d \in {dispatch_format(record_format, RStripNewline(line)) :
                     record_format \in
                         {get_record_format(RStripNewline(line))}} : TRUE

\* what one turn of the loop of Dispatcher._dispatch_byte_stream does with
\* a line, for every kind of line that can be decoded: skip it (the last
\* line), count it, and send it when get_record_format knows its format
dispatched ==
    [kind \in LineKinds \ {"undecodable"} |->
        IF is_last_line(LineOf(kind))
        THEN [counted |-> FALSE, sends |-> FALSE]
        ELSE dispatch_line(LineOf(kind))]

\* a producer that sends the end signals in a finally clause
producer_after_error_finally == "end_signals"

\* dispatch_records when dispatcher.dispatch(path) raises: nothing catches
\* the exception, the loop of the end signals is not run
producer_after_error == "failed"

\* one turn of the loop of Dispatcher._dispatch_byte_stream: the next line
\* of the input is of the given kind
DispatchLine(kind) ==
    /\ mode \in {"threads", "temp"}
    /\ producer_pc = "dispatch"
    /\ Len(file) < MaxLines
    /\ file' = Append(file, kind)
    /\ IF kind = "undecodable"
       THEN \* UnicodeDecodeError: the dispatching thread dies
            /\ producer_pc' = producer_after_error
            /\ orch_pc' = IF mode = "temp" THEN "raised" ELSE orch_pc
            /\ UNCHANGED <<count, send_log, streams, temp_files>>
       ELSE /\ UNCHANGED <<producer_pc, orch_pc>>
            /\ count' = IF dispatched[kind].counted THEN count + 1 ELSE count
            /\ IF dispatched[kind].sends
               THEN SendTo(dispatched[kind].name, Len(file) + 1,
                           dispatched[kind].csv_line)
               ELSE UNCHANGED <<send_log, streams, temp_files>>
    /\ UNCHANGED <<config_vars, end_sent, frames, received, last_read,
                   first_zero, sent, load_vars, orch_idx>>

\* the input is exhausted: dispatcher.dispatch(path) returns
DispatchEOF ==
    /\ mode \in {"threads", "temp"}
    /\ producer_pc = "dispatch"
    /\ producer_pc' = IF mode = "threads" THEN "end_signals" ELSE "done"
    /\ orch_pc' = IF mode = "temp" THEN "close" ELSE orch_pc
    /\ UNCHANGED <<config_vars, file, count, end_sent, send_log, stream_vars,
                   sent, load_vars, temp_files, orch_idx>>

\* the names of the formats in the order of a sorted dict
end_signal_names_sorted == <<"commune", "direction", "header", "voie">>

\* the names of `for name in thread_info_by_name`, in the order of the dict
end_signal_names == [k \in 1..Len(RECORD_FORMATS) |-> RECORD_FORMATS[k].name]

\* one turn of the last loop of dispatch_records: send_to(name, None)
ProducerEndSignal ==
    /\ mode = "threads"
    /\ producer_pc = "end_signals"
    /\ SendTo(end_signal_names[end_sent + 1], 0, None)
    /\ end_sent' = end_sent + 1
    /\ producer_pc' =
           IF end_sent + 1 = Len(end_signal_names) THEN "done" ELSE producer_pc
    /\ UNCHANGED <<config_vars, file, count, frames, received, last_read,
                   first_zero, sent, load_vars, orch_pc, orch_idx>>

\* a start of the consumers where the main thread obtains the executor of
\* the thread (new_executor() called in consumer_factory, not in consumer)
OrchStartConsumer_with_executor ==
    /\ mode = "threads"
    /\ orch_pc = "start"
    /\ consumer_pc' =
           [consumer_pc EXCEPT ![RECORD_FORMATS[orch_idx].name] = "ready"]
    /\ calls' = [calls EXCEPT ![RECORD_FORMATS[orch_idx].name] =
                    <<"new_executor">>]
    /\ IF orch_idx = Len(RECORD_FORMATS)
       THEN orch_pc' = "start_producer" /\ orch_idx' = 1
       ELSE orch_pc' = orch_pc /\ orch_idx' = orch_idx + 1
    /\ UNCHANGED <<config_vars, dispatch_vars, stream_vars, sent,
                   tables, temp_files>>

\* one turn of `for thread in consumer_thread_by_name.values():
\* thread.start()`
OrchStartConsumer ==
    /\ mode = "threads"
    /\ orch_pc = "start"
    /\ consumer_pc' =
           [consumer_pc EXCEPT ![RECORD_FORMATS[orch_idx].name] = "ready"]
    /\ IF orch_idx = Len(RECORD_FORMATS)
       THEN orch_pc' = "start_producer" /\ orch_idx' = 1
       ELSE orch_pc' = orch_pc /\ orch_idx' = orch_idx + 1
    /\ UNCHANGED <<config_vars, dispatch_vars, stream_vars, sent, calls,
                   tables, temp_files>>

\* a producer thread started before the loop that starts the consumers
OrchStartProducer_first ==
    /\ mode = "threads"
    /\ orch_pc = "start" /\ orch_idx = 1 /\ producer_pc = "unstarted"
    /\ producer_pc' = "dispatch"
    /\ UNCHANGED <<config_vars, file, count, end_sent, send_log, stream_vars,
                   sent, load_vars, temp_files, orch_pc, orch_idx>>

\* producer_thread.start()
OrchStartProducer ==
    /\ mode = "threads"
    /\ orch_pc = "start_producer"
    /\ producer_pc' = "dispatch"
    /\ orch_pc' = "join"
    /\ UNCHANGED <<config_vars, file, count, end_sent, send_log, stream_vars,
                   sent, load_vars, temp_files, orch_idx>>

\* a join that returns at once (thread.join(0))
joined_at_once(name) == TRUE

\* thread.join() returns: the thread has terminated, its target having
\* returned or raised
joined(name) == consumer_pc[name] \in {"done", "raised"}

\* one turn of `for thread in consumer_thread_by_name.values():
\* thread.join()`; after the last one _import_with_threads returns
OrchJoin ==
    /\ mode = "threads"
    /\ orch_pc = "join"
    /\ joined(RECORD_FORMATS[orch_idx].name)
    /\ IF orch_idx = Len(RECORD_FORMATS)
       THEN orch_pc' = "returned" /\ orch_idx' = orch_idx
       ELSE orch_pc' = orch_pc /\ orch_idx' = orch_idx + 1
    /\ UNCHANGED <<config_vars, dispatch_vars, stream_vars, sent, load_vars,
                   temp_files>>

\* the bulk copy of the executor (cursor.execute(query, stream=stream))
\* reads its stream with readinto on a buffer of BUFFER_SIZE bytes until a
\* call returns no byte.  data is what it has read so far; the result is
\* its state when it blocks in a get (over is FALSE) or when it is over.
RECURSIVE bulk_copy(_, _)

\* a bulk copy whose reads do not wait: a get on an empty queue ends the
\* copy (queue.get_nowait() with the Empty exception taken as the end)
bulk_copy_after_nowait(r, data) ==
    IF ~r.returned \/ r.ret = 0
    THEN [stream |-> r.stream, frame |-> r.frame, data |-> data,
          over |-> TRUE]
    ELSE bulk_copy(r.stream, data \o r.b)

\* the bulk copy once its readinto call has come to r: blocked in a get,
\* returned no byte, or returned bytes and readinto is called again
bulk_copy_after(r, data) ==
    IF ~r.returned
    THEN [stream |-> r.stream, frame |-> r.frame, data |-> data,
          over |-> FALSE]
    ELSE IF r.ret = 0
    THEN [stream |-> r.stream, frame |-> r.frame, data |-> data,
          over |-> TRUE]
    ELSE bulk_copy(r.stream, data \o r.b)

bulk_copy(stream, data) ==
    CHOOSE c \in {bulk_copy_after(r, data) :
                     r \in {readinto_enter(stream, BUFFER_SIZE)}} : TRUE

\* the bulk copy after the get of its running readinto has returned an item
bulk_copy_get(stream, frame, data) ==
    CHOOSE c \in {bulk_copy_after(r, data) :
                     r \in {readinto_get(stream, frame)}} : TRUE

\* the thread of consumer() goes on with the bulk copy in state c: it blocks
\* in a get, or the copy is over, write_table goes on after copy_table,
\* consumer() closes its executor and the thread terminates; called is the
\* executor calls made so far
ConsumerCopy(name, c, called) ==
    /\ streams' = [streams EXCEPT ![name] = c.stream]
    /\ frames' = [frames EXCEPT ![name] = c.frame]
    /\ received' = [received EXCEPT ![name] = c.data]
    /\ consumer_pc' = [consumer_pc EXCEPT ![name] =
                          IF c.over THEN "done" ELSE "get"]
    /\ calls' = [calls EXCEPT ![name] =
                    called \o (IF c.over
                               THEN write_table_after_copy \o <<"close">>
                               ELSE <<>>)]
    /\ IF c.over
       THEN \E rows \in {copy_stream(c.data)} :
                tables' = [tables EXCEPT
                              ![name] = [exists |-> TRUE, rows |-> rows]]
       ELSE tables' = [tables EXCEPT
                          ![name] = [exists |-> TRUE, rows |-> <<>>]]

\* the thread of consumer() runs until it blocks or terminates:
\* new_executor(), write_table up to copy_table, which hands the CSVStream
\* to the bulk copy of the executor.  On a FakeConnection every call is
\* only logged: the stream is not read and no table is touched.
ConsumerStart(name) ==
    /\ mode = "threads"
    /\ consumer_pc[name] = "ready"
    /\ IF dry_run
       THEN /\ consumer_pc' = [consumer_pc EXCEPT ![name] = "done"]
            /\ calls' = [calls EXCEPT ![name] =
                            <<"new_executor">> \o write_table_before_copy
                            \o write_table_after_copy \o <<"close">>]
            /\ UNCHANGED <<tables, streams, frames, received>>
       ELSE \E c \in {bulk_copy(streams[name], <<>>)} :
                ConsumerCopy(name, c,
                             <<"new_executor">> \o write_table_before_copy)
    /\ UNCHANGED <<config_vars, dispatch_vars, last_read, first_zero, sent,
                   temp_files, orch_pc, orch_idx>>

\* the blocked get of the running readinto of the bulk copy returns an item
\* and the thread runs until it blocks again or terminates
ConsumerGet(name) ==
    /\ mode = "threads"
    /\ consumer_pc[name] = "get"
    /\ streams[name].queue # <<>>
    /\ \E c \in {bulk_copy_get(streams[name], frames[name], received[name])} :
           ConsumerCopy(name, c, calls[name])
    /\ UNCHANGED <<config_vars, dispatch_vars, last_read, first_zero, sent,
                   temp_files, orch_pc, orch_idx>>

\* a dispatch_to_temp that returns without closing its files
TempClose_none ==
    /\ mode = "temp"
    /\ orch_pc = "close"
    /\ orch_pc' = "load"
    /\ orch_idx' = 1
    /\ UNCHANGED <<config_vars, dispatch_vars, stream_vars, sent, load_vars,
                   temp_files>>

\* dispatch_to_temp after the dispatch: every temporary file is closed
TempClose ==
    /\ mode = "temp"
    /\ orch_pc = "close"
    /\ temp_files' = [n \in DOMAIN temp_files |->
                         [temp_files[n] EXCEPT !.open = FALSE]]
    /\ orch_pc' = "load"
    /\ orch_idx' = 1
    /\ UNCHANGED <<config_vars, dispatch_vars, stream_vars, sent, load_vars>>

\* one turn of the loop of _import_with_temp: the header format is skipped,
\* another format is loaded by write_table_from_temp
TempLoad ==
    /\ mode = "temp"
    /\ orch_pc = "load"
    /\ LET name == RECORD_FORMATS[orch_idx].name
       IN  IF name = HEADER_FORMAT.name
           THEN UNCHANGED <<calls, tables>>
           ELSE /\ calls' = [calls EXCEPT ![name] = write_table_before_copy
                                              \o write_table_after_copy]
                /\ IF dry_run
                   THEN tables' = tables
                   ELSE \E data \in {Encode(temp_files[name].text)} :
                            \E rows \in {copy_stream(data)} :
                                tables' = [tables EXCEPT ![name] =
                                    [exists |-> TRUE, rows |-> rows]]
    /\ IF orch_idx = Len(RECORD_FORMATS)
       THEN orch_pc' = "returned" /\ orch_idx' = orch_idx
       ELSE orch_pc' = orch_pc /\ orch_idx' = orch_idx + 1
    /\ UNCHANGED <<config_vars, dispatch_vars, stream_vars, sent,
                   consumer_pc, temp_files>>

Producer ==
    \/ \E kind \in LineKinds : DispatchLine(kind)
    \/ DispatchEOF
    \/ ProducerEndSignal

Orchestrator ==
    \/ OrchStartConsumer
    \/ OrchStartProducer
    \/ OrchJoin
    \/ TempClose
    \/ TempLoad

Consumer(name) ==
    \/ ConsumerStart(name)
    \/ ConsumerGet(name)

Next ==
    \/ Producer
    \/ Orchestrator
    \/ \E name \in FormatNames : Consumer(name)

Spec == Init /\ [][Next]_vars

\* the threads are scheduled: while some thread can take a step, one does
FairSpec == Spec /\ WF_vars(Next)

(***************************************************************************)
(* Properties of CSVStream, checked under SpecStream.                      *)
(***************************************************************************)
\* the header row of the stream of the unit scenario: b'a\tb\tc\n'
TEST_HEADER_BYTES == <<97, 9, 98, 9, 99, 10>>

\* the rows sent before the first end signal
RowsBeforeEnd(items) ==
    LET ends == {k \in 1..Len(items) : items[k] = None}
    IN  IF ends = {} THEN items ELSE SubSeq(items, 1, SetMin(ends) - 1)

\* the encoded header row followed by the encoded rows, in send order
SentBytes == TEST_HEADER_BYTES \o Encode(Flatten(RowsBeforeEnd(sent)))

IsPrefix(s, t) == Len(s) <= Len(t) /\ s = SubSeq(t, 1, Len(s))

\* C1, as stated: the bytes returned by the calls up to the first call that
\* returns 0 bytes, whatever the sizes of the buffers, are the encoded
\* header row followed by the encoded rows in send order.
C1_UpToFirstZeroReturn ==
    mode = "stream" /\ first_zero[TEST_STREAM].seen
        => first_zero[TEST_STREAM].bytes = SentBytes

\* C1, amended: the bytes returned by the calls up to the first call on a
\* buffer of at least one byte that returns 0 bytes are the encoded header
\* row followed by the encoded rows sent before the end signal, in send
\* order: no byte is lost, duplicated, replayed or reordered.
C1_ByteExact ==
    mode = "stream" /\ last_read[TEST_STREAM].len_b > 0
                    /\ last_read[TEST_STREAM].ret = 0
        => received[TEST_STREAM] = SentBytes

\* the scenario of test_csv_stream, then the end signal and a last read
C1_Witness ==
    /\ mode = "stream"
    /\ sent = <<<<"0", "1", "2", "3", "4", "5", "6", "7", "8", "9">>, None>>
    /\ last_read[TEST_STREAM].len_b = 5
    /\ last_read[TEST_STREAM].ret = 0
    /\ received[TEST_STREAM] =
           <<97, 9, 98, 9, 99, 10, 48, 49, 50, 51, 52, 53, 54, 55, 56, 57>>

\* C7: once the stream has ended, a read or readinto call, whatever the
\* size of its buffer, returns 0 bytes at once: it does not block in a get
\* and takes nothing from the queue.
C7_EndedReadsReturnZero ==
    [][mode = "stream" /\ streams[TEST_STREAM].queue_ended /\ sent' = sent
           => /\ frames'[TEST_STREAM].pc = "idle"
              /\ last_read'[TEST_STREAM].ret = 0
              /\ received'[TEST_STREAM] = received[TEST_STREAM]
              /\ streams'[TEST_STREAM].queue = streams[TEST_STREAM].queue]_vars

\* a call made after the final short read has returned 0 on an empty queue
C7_Witness ==
    /\ mode = "stream"
    /\ last_read[TEST_STREAM].at_end
    /\ last_read[TEST_STREAM].len_b > 0
    /\ last_read[TEST_STREAM].ret = 0
    /\ streams[TEST_STREAM].queue = <<>>
    /\ Len(received[TEST_STREAM]) > Len(TEST_HEADER_BYTES)

\* C8: the first bytes a reader obtains are the header row, the names joined
\* by tabs then a newline; they come once, and every byte obtained after
\* them is a byte of a sent row.
C8_HeaderFirst ==
    mode = "stream" =>
        LET got == received[TEST_STREAM] \o frames[TEST_STREAM].b
            h == Len(TEST_HEADER_BYTES)
        IN  /\ \A k \in 1..Min(Len(got), h) : got[k] = TEST_HEADER_BYTES[k]
            /\ Len(got) > h =>
                   IsPrefix(SubSeq(got, h + 1, Len(got)),
                            Encode(Flatten(RowsBeforeEnd(sent))))

\* the header row was obtained in two reads, the second one going on into
\* the first row, sent before the first read
C8_Witness ==
    /\ mode = "stream"
    /\ Len(sent) = 1
    /\ sent[1] # None
    /\ Len(received[TEST_STREAM]) = Len(TEST_HEADER_BYTES) + 1
    /\ last_read[TEST_STREAM].len_b = 2
    /\ streams[TEST_STREAM].queue = <<>>

(***************************************************************************)
(* Properties of the two import modes, checked under Spec or FairSpec.     *)
(***************************************************************************)
\* the record type of each kind of line: the type the tests expect for the
\* four lines they classify, none for the other kinds
kind_type(kind) ==
    CASE kind \in {"commune", "commune_2"} -> "commune"
      [] kind \in {"header", "direction", "voie"} -> kind
      [] OTHER -> "None"

\* the row of a line of a record format, its newline apart
row_of(record_format, line) ==
    CHOOSE row \in {SubSeq(csv_line, 1, Len(csv_line) - 1) :
                       csv_line \in {to_line(record_format, record) :
                           record \in {format(record_format, line)}}} : TRUE

\* the row of each kind of line that has a record type
expected_row ==
    [kind \in {k \in LineKinds : kind_type(k) # "None"} |->
        CHOOSE row \in {row_of(record_format, RStripNewline(LineOf(kind))) :
                           record_format \in
                               {FormatByName(kind_type(kind))}} : TRUE]

\* the rows of the lines of a record type read so far, in the order of the
\* input
ExpectedRows(name) ==
    LET kinds == SelectSeq(file, LAMBDA k : kind_type(k) = name)
    IN  [j \in 1..Len(kinds) |-> expected_row[kinds[j]]]

CountKind(kind) == Cardinality({k \in 1..Len(file) : file[k] = kind})

RECURSIVE SumLen(_, _)
SumLen(f, S) ==
    IF S = {} THEN 0
    ELSE LET n == CHOOSE x \in S : TRUE
         IN  Len(f[n]) + SumLen(f, S \ {n})

\* the rows the consumer of each record type got from its stream: the lines
\* its bulk copy read after the header line
Delivered == [n \in DOMAIN received |-> copy_stream(received[n])]

RowsOfType(name) ==
    {Append(expected_row[k], "\n") :
        k \in {k \in DOMAIN expected_row : kind_type(k) = name}}

\* C4: the row of a classified line is sent once, to the destination of the
\* name of its record type and to no other, and no destination, queue or
\* temporary file, ever holds a row of another record type.
C4_Routing ==
    mode \in {"threads", "temp"} =>
        /\ \A k \in 1..Len(send_log) :
               send_log[k].line > 0 =>
                   send_log[k].name = kind_type(file[send_log[k].line])
        /\ \A l \in 1..Len(file) :
               Cardinality({k \in 1..Len(send_log) : send_log[k].line = l})
                   = IF kind_type(file[l]) = "None" THEN 0 ELSE 1
        /\ \A n \in DOMAIN streams :
               \A k \in 1..Len(streams[n].queue) :
                   \/ streams[n].queue[k] = None
                   \/ streams[n].queue[k] \in RowsOfType(n)
        /\ \A n \in DOMAIN temp_files :
               LET lines == Lines(Encode(temp_files[n].text))
               IN  \A k \in 1..Len(lines) :
                       Append(Decode(lines[k]), "\n") \in RowsOfType(n)

\* a commune line and a voie line were routed to the queues of their types
C4_Witness ==
    /\ mode = "threads"
    /\ file = <<"commune", "voie">>
    /\ Len(send_log) = 2
    /\ Len(streams["commune"].queue) = 1
    /\ Len(streams["voie"].queue) = 1

\* the header row of the stream of each record type
stream_header_bytes ==
    [n \in FormatNames |->
        Encode(Join(<<"\t">>, FormatByName(n).header) \o <<"\n">>)]

\* C5: the consumer of a record type is delivered the rows of that type in
\* the order of their lines in the input, under every interleaving: what it
\* has got so far is the header row and the first rows of its type.
C5_FifoOrder ==
    mode = "threads" =>
        \A n \in FormatNames :
            IsPrefix(received[n] \o frames[n].b,
                     stream_header_bytes[n]
                         \o Encode(Flatten([k \in 1..Len(ExpectedRows(n)) |->
                                Append(ExpectedRows(n)[k], "\n")])))

\* the commune consumer got the rows of two different commune lines
C5_Witness ==
    /\ mode = "threads"
    /\ file = <<"commune_2", "commune">>
    /\ consumer_pc["commune"] = "done"
    /\ tables["commune"].rows =
           <<expected_row["commune_2"], expected_row["commune"]>>

\* the names of the formats in the order they are declared
DeclaredNames == <<"header", "direction", "commune", "voie">>

\* C6: the end signal is sent once to every destination, in the order the
\* formats are declared, after the input is exhausted and after every row:
\* no row follows an end signal in a queue.
C6_EndSignals ==
    mode = "threads" =>
        LET ends == SelectSeq(send_log, LAMBDA e : e.line = 0)
        IN  /\ [k \in 1..Len(ends) |-> ends[k].name]
                   = SubSeq(DeclaredNames, 1, Len(ends))
            /\ \A j, k \in 1..Len(send_log) :
                   j < k /\ send_log[j].line = 0 => send_log[k].line = 0
            /\ ends # <<>> => producer_pc \in {"end_signals", "done"}
            /\ producer_pc = "done" => Len(ends) = Len(DeclaredNames)
            /\ \A n \in FormatNames :
                   \A k \in 1..Len(streams[n].queue) :
                       streams[n].queue[k] = None => k = Len(streams[n].queue)

\* the producer has sent two rows then the four end signals
C6_Witness ==
    /\ mode = "threads"
    /\ producer_pc = "done"
    /\ Len(send_log) = 6
    /\ send_log[2].line = 2
    /\ send_log[6].name = "voie"

\* C9, as stated: in temp-file mode, after the import the table of each
\* format but the header holds the rows of the lines of its record type, in
\* the order of the input.
C9_TempTablesComplete ==
    mode = "temp" /\ ~dry_run /\ orch_pc = "returned"
        => \A n \in FormatNames \ {"header"} : tables[n].rows = ExpectedRows(n)

\* C10: the threaded import returns only once every consumer thread has
\* terminated: each has run its load through the last commit and closed its
\* executor, and no read of a stream is going on.
C10_ReturnAfterConsumers ==
    mode = "threads" /\ orch_pc = "returned"
        => \A n \in FormatNames :
               /\ consumer_pc[n] = "done"
               /\ frames[n].pc = "idle"
               /\ Len(calls[n]) >= 2
               /\ SubSeq(calls[n], Len(calls[n]) - 1, Len(calls[n]))
                      = <<"commit", "close">>

\* the threaded import of two voie lines has returned
C10_Witness ==
    /\ mode = "threads"
    /\ ~dry_run
    /\ orch_pc = "returned"
    /\ Len(tables["voie"].rows) = 2
    /\ \A n \in FormatNames : Len(calls[n]) = 11

\* ------------------------------------------------------------------------
\* C11 .. C20
\* ------------------------------------------------------------------------

\* the producer has sent the end signal of the destination name
EndSignalSent(name) ==
    \E k \in 1..Len(send_log) :
        send_log[k].name = name /\ send_log[k].line = 0

ProducerRaised == file # <<>> /\ file[Len(file)] = "undecodable"

\* C12: in threaded mode with executors that read their stream, once the
\* producer has stopped on an exception before the end signals, no end
\* signal is ever sent, no consumer terminates and the join of the
\* orchestrator never returns
C12_ProducerFailureBlocksForever ==
    mode = "threads" /\ ~dry_run /\ ProducerRaised =>
        /\ orch_pc = "join"
        /\ \A name \in FormatNames :
               /\ consumer_pc[name] \in {"ready", "get"}
               /\ ~EndSignalSent(name)
               /\ ~streams[name].queue_ended

\* the deadlock: the producer has failed after a dispatched row, every
\* consumer is blocked in the get of an empty queue, the orchestrator is in
\* its first join and no step is possible
C12_Witness ==
    /\ mode = "threads" /\ ~dry_run
    /\ ProducerRaised
    /\ count >= 1
    /\ orch_pc = "join" /\ orch_idx = 1
    /\ \A name \in FormatNames :
           consumer_pc[name] = "get" /\ streams[name].queue = <<>>
    /\ ~ENABLED Next

\* the number of items (rows and end signal) sent to the destination name
SendCount(name) ==
    Cardinality({k \in 1..Len(send_log) : send_log[k].name = name})

import_vars ==
    <<dispatch_vars, stream_vars, sent, load_vars, temp_files, orch_pc,
      orch_idx>>

\* the last position at which the lines handed to get_record_format are
\* changed: it covers the slices probed
MaxPos == 42

\* the lines handed to get_record_format: the lines of the tests, the
\* same with one character changed, with a blank prefix, or cut short
ClassifiedLines ==
    LET bases == {RStripNewline(LineOf(kind)) :
                     kind \in LineKinds \ {"undecodable"}}
        Edit(line, p, c) ==
            IF p <= Len(line) THEN [line EXCEPT ![p] = c] ELSE line
        BlankPrefix(line, k, c) ==
            [i \in 1..Len(line) |-> IF i <= k THEN c ELSE line[i]]
    IN  bases
        \cup {Edit(line, p, c) :
                 line \in bases, p \in 1..MaxPos, c \in {" ", "NUL", "X"}}
        \cup {BlankPrefix(line, k, c) :
                 line \in bases, k \in 1..MaxPos, c \in {" ", "NUL"}}
        \cup {PySlice(line, 0, k) : line \in bases, k \in 0..MaxPos}

\* what line[k] raises when the line has no character at that index
IndexError == [name |-> "IndexError"]

\* get_record_format(line) of fantoir.py: tests of the characters at the
\* indices 0, 3 and 7 of the line, in that order
fantoir_get_record_format(line) ==
    IF Len(line) < 1 THEN IndexError
    ELSE IF line[1] = "NUL" THEN HEADER_FORMAT
    ELSE IF Len(line) < 4 THEN IndexError
    ELSE IF line[4] = " " THEN DIRECTION_FORMAT
    ELSE IF Len(line) < 8 THEN IndexError
    ELSE IF line[8] = " " THEN COMMUNE_FORMAT
    ELSE VOIE_FORMAT

\* get_record_format(line) of import_fantoir.py returns (value); what
\* get_record_format(line) of fantoir.py returns or raises on the same
\* line is kept beside it (parser)
GetRecordFormat ==
    /\ mode = "call"
    /\ call.op = "get_record_format"
    /\ result = Pending
    /\ result' = [returned |-> TRUE,
                  value |-> get_record_format(call.line).name,
                  parser |-> fantoir_get_record_format(call.line).name]
    /\ UNCHANGED <<mode, dry_run, call, import_vars>>


\* a get_table that takes the fields of the format, fillers included
get_table_with_fillers(record_format) ==
    [name |-> record_format.name,
     fields |-> [i \in 1..Len(record_format.fields) |->
                    [table_name |-> record_format.name,
                     field_name |-> record_format.fields[i].db_name,
                     type |-> "text",
                     rank |-> i - 1]],
     indices |-> <<>>]

\* get_table(record_format): one TEXT field per name of the header of the
\* format, ranked from 0, and no index
get_table(record_format) ==
    [name |-> record_format.name,
     fields |-> [i \in 1..Len(record_format.header) |->
                    [table_name |-> record_format.name,
                     field_name |-> record_format.header[i],
                     type |-> "text",
                     rank |-> i - 1]],
     indices |-> <<>>]

\* SQLField.type_value(value): SQLTypes.TEXT is BasicSQLType("text"), which
\* has no typer and returns the value as it is
type_value(field, value) ==
    CASE field.type = "text" -> value

\* one row of csv.reader(stream, dialect) with the dialect of get_dialect
\* (delimiter tab, quotechar backspace): the values between the tabs of the
\* line; an empty line is a row of no value
csv_row(text) ==
    LET tabs == {k \in 1..Len(text) : text[k] = "\t"}
        n == Cardinality(tabs)
        tab(j) == CHOOSE p \in tabs : Cardinality({q \in tabs : q <= p}) = j
        start(j) == IF j = 1 THEN 1 ELSE tab(j - 1) + 1
        stop(j) == IF j = n + 1 THEN Len(text) ELSE tab(j) - 1
    IN  IF text = <<>> THEN <<>>
        ELSE [j \in 1..(n + 1) |-> SubSeq(text, start(j), stop(j))]

\* csv.reader(getreader(encoding)(stream), dialect): the rows of the stream
csv_reader(data) ==
    CHOOSE rows \in {[k \in 1..Len(lines) |-> csv_row(Decode(lines[k]))] :
                        lines \in {Lines(data)}} : TRUE

\* tuple(field.type_value(value) for field, value in zip(table_fields, row))
typed_row(table, row) ==
    [j \in 1..Min(Len(table.fields), Len(row)) |->
        type_value(table.fields[j], row[j])]

\* insert_all once the reader is built: next(reader) raises StopIteration
\* when the stream has no line, else the rows after the first one are
\* typed and inserted in order
insert_rows_after_header(table, reader) ==
    IF reader = <<>>
    THEN [returned |-> TRUE, raised |-> "StopIteration", rows |-> <<>>]
    ELSE [returned |-> TRUE, raised |-> "None",
          rows |-> [k \in 1..Len(reader) - 1 |->
                       typed_row(table, reader[k + 1])]]

\* QueryExecutor.insert_all(table, stream, encoding, dialect)
insert_all(table, data) ==
    CHOOSE r \in {insert_rows_after_header(table, reader) :
                     reader \in {csv_reader(data)}} : TRUE

\* the streams handed to copy_stream for the table name: with or without
\* the header row, up to two rows of that record type
CopiedStreams(name) ==
    LET kinds == {k \in DOMAIN expected_row : kind_type(k) = name}
        line(k) == Encode(expected_row[k] \o <<"\n">>)
        rows == {<<>>} \cup {line(k) : k \in kinds}
                \cup {line(k1) \o line(k2) : k1 \in kinds, k2 \in kinds}
    IN  rows \cup {stream_header_bytes[name] \o r : r \in rows}

\* SQLiteQueryExecutor.copy_stream(table, stream, encoding, dialect): no
\* bulk copy in sqlite, the rows are inserted by insert_all
SQLiteCopyStream ==
    /\ mode = "call"
    /\ call.op = "copy_stream"
    /\ result = Pending
    /\ result' = insert_all(get_table(FormatByName(call.name)), call.data)
    /\ UNCHANGED <<mode, dry_run, call, import_vars>>


\* register(importer_context_factory, *rdbms_list) on the dict registry
register(registry, importer_context_factory, rdbms_list) ==
    [rdbms \in DOMAIN registry \cup rdbms_list |->
        IF rdbms \in rdbms_list THEN importer_context_factory
        ELSE registry[rdbms]]

\* _FANTOIR_CONTEXT_FACTORY_BY_RDBMS after the register calls of the module
FANTOIR_CONTEXT_FACTORY_BY_RDBMS ==
    register(
        register(
            register(<<>>, "postgres_context",
                     {<<"p", "g">>, <<"p", "o", "s", "t", "g", "r", "e", "s">>,
                      <<"p", "o", "s", "t", "g", "r", "e", "s", "q", "l">>}),
            "sqlite_context",
            {<<"s", "q", "l", "i", "t", "e">>, <<"s", "q", "l", "i", "t", "e", "3">>}),
        "mariadb_context",
        {<<"m", "a", "r", "i", "a">>, <<"m", "a", "r", "i", "a", "d", "b">>,
         <<"m", "y", "s", "q", "l">>})

\* _FANTOIR_THREAD_CONTEXT_FACTORY_BY_RDBMS after the register_thread calls
FANTOIR_THREAD_CONTEXT_FACTORY_BY_RDBMS ==
    register(
        register(<<>>, "postgres_thread_context",
                 {<<"p", "g">>, <<"p", "o", "s", "t", "g", "r", "e", "s">>,
                  <<"p", "o", "s", "t", "g", "r", "e", "s", "q", "l">>}),
        "mariadb_thread_context",
        {<<"m", "a", "r", "i", "a">>, <<"m", "a", "r", "i", "a", "d", "b">>,
         <<"m", "y", "s", "q", "l">>})

\* a lookup with the identifier as it was given
registry_key_exact(rdbms) == rdbms

\* the key of the lookup: rdbms.casefold()
registry_key(rdbms) == casefold(rdbms)

\* dict.get(key): the factory, or None
registry_get(registry, key) ==
    IF key \in DOMAIN registry THEN registry[key] ELSE "None"

\* import_fantoir / import_fantoir_thread up to the call of _import_with_temp
\* / _import_with_threads: what is done, in order, and what is raised
import_entry(registry, with_fake, rdbms, import_with) ==
    LET before == <<"getLogger">>
                  \o (IF with_fake THEN <<"FakeConnection">> ELSE <<>>)
                  \o <<"logger.debug", "getLogger", "registry.get">>
        context_factory == registry_get(registry, registry_key(rdbms))
    IN  IF context_factory = "None"
        THEN [returned |-> TRUE, raised |-> "ValueError", done |-> before]
        ELSE [returned |-> TRUE, raised |-> "None",
              done |-> before \o <<context_factory, import_with>>]

\* import_fantoir(connection, fantoir_path, rdbms) up to _import_with_temp
ImportFantoir ==
    /\ mode = "call"
    /\ call.op = "import_fantoir"
    /\ result = Pending
    /\ result' = import_entry(FANTOIR_CONTEXT_FACTORY_BY_RDBMS,
                              call.connection = "None", call.rdbms,
                              "_import_with_temp")
    /\ UNCHANGED <<mode, dry_run, call, import_vars>>

\* import_fantoir_thread(new_connection, fantoir_path, rdbms) up to
\* _import_with_threads
ImportFantoirThread ==
    /\ mode = "call"
    /\ call.op = "import_fantoir_thread"
    /\ result = Pending
    /\ result' = import_entry(FANTOIR_THREAD_CONTEXT_FACTORY_BY_RDBMS,
                              FALSE, call.rdbms, "_import_with_threads")
    /\ UNCHANGED <<mode, dry_run, call, import_vars>>

\* the table that write_table hands to executor.create_table for each
\* record format
created_table == [name \in FormatNames |-> get_table(FormatByName(name))]

\* the columns of a table: the name and the type of its fields, in order
columns_of(table) ==
    [k \in 1..Len(table.fields) |->
        [name |-> table.fields[k].field_name, type |-> table.fields[k].type]]

\* DROP TABLE IF EXISTS name on the tables db of a database
drop_table(db, table) == {t \in db : t.name # table.name}

\* CREATE TABLE name (...) on the tables db: an error when a table of that
\* name exists, else a new table without row
sql_create_table(db, table) ==
    IF \E t \in db : t.name = table.name
    THEN [db |-> db, raised |-> "table exists"]
    ELSE [db |-> db \cup {[name |-> table.name,
                           columns |-> columns_of(table),
                           rows |-> <<>>]},
          raised |-> "None"]

\* a create_table that executes the CREATE TABLE query only
create_table_without_drop(db, table) == sql_create_table(db, table)

\* QueryExecutor.create_table(table): the DROP TABLE IF EXISTS query, then
\* the CREATE TABLE query
create_table(db, table) == sql_create_table(drop_table(db, table), table)

\* the tables handed to create_table: those of the import and the table of
\* two fields of the tests of the query provider
TablesToCreate ==
    {created_table[name] : name \in FormatNames}
    \cup {[name |-> "table",
           fields |-> <<[table_name |-> "table", field_name |-> "field1",
                         type |-> "boolean", rank |-> 0],
                        [table_name |-> "table", field_name |-> "field2",
                         type |-> "numeric", rank |-> 0]>>,
           indices |-> <<>>]}

\* how often create_table is run on the same table
MaxRuns == 2

\* executor.create_table(table), for the first time or once more
CreateTable ==
    /\ mode = "call"
    /\ call.op = "create_table"
    /\ IF result = Pending THEN TRUE
       ELSE result.raised = "None" /\ result.runs < MaxRuns
    /\ \E r \in {create_table(IF result = Pending THEN call.db ELSE result.db,
                              call.table)} :
           result' = [returned |-> TRUE, raised |-> r.raised, db |-> r.db,
                      runs |-> IF result = Pending THEN 1
                               ELSE result.runs + 1]
    /\ UNCHANGED <<mode, dry_run, call, import_vars>>

(***************************************************************************)
(* RecordFormat.to_row and to_dict (fantoir.py).                           *)
(***************************************************************************)
\* RecordFormat.to_row(line): "\t".join of line[self._slices[i]].strip()
\* for the i-th name of the header, and a newline; _slices holds the slices
\* of the non-filler fields
to_row(record_format, line) ==
    Join(<<"\t">>, [i \in 1..Len(record_format.header) |->
                     Strip(PySlice(line, record_format.n_s[i].s.lo,
                                   record_format.n_s[i].s.hi))]) \o <<"\n">>

\* to_row(line) of the format named returns; the line that format() and
\* to_line() of import_fantoir.py make of the same line is kept beside it
ToRow ==
    /\ mode = "call"
    /\ call.op = "to_row"
    /\ result = Pending
    /\ \E record_format \in {FormatByName(call.name)} :
           result' = [returned |-> TRUE,
                      row |-> to_row(record_format, call.line),
                      line |-> to_line(record_format,
                                       format(record_format, call.line))]
    /\ UNCHANGED <<mode, dry_run, call, import_vars>>

\* a dict after the items are set in order: a new key is added at the end,
\* a key already there keeps its place and takes the new value
RECURSIVE dict_update(_, _)
dict_update(d, items) ==
    IF items = <<>> THEN d
    ELSE LET item == Head(items)
             at == {k \in 1..Len(d) : d[k].key = item.key}
         IN  dict_update(IF at = {} THEN Append(d, item)
                         ELSE [k \in 1..Len(d) |->
                                  IF k \in at THEN item ELSE d[k]],
                         Tail(items))

\* a to_dict that sets "record_type" before the fields
to_dict_type_first(record_format, line) ==
    dict_update(
        <<[key |-> <<"r","e","c","o","r","d","_","t","y","p","e">>,
           value |-> record_format.name]>>,
        [i \in 1..Len(record_format.header) |->
            [key |-> record_format.header[i],
             value |-> PySlice(line, record_format.n_s[i].s.lo,
                               record_format.n_s[i].s.hi)]])

\* RecordFormat.to_dict(line): {n: line[s] for n, s in zip(header, _slices)},
\* then ret["record_type"] = name; the dict is the sequence of its items
to_dict(record_format, line) ==
    dict_update(
        dict_update(<<>>,
            [i \in 1..Len(record_format.header) |->
                [key |-> record_format.header[i],
                 value |-> PySlice(line, record_format.n_s[i].s.lo,
                                   record_format.n_s[i].s.hi)]]),
        <<[key |-> <<"r","e","c","o","r","d","_","t","y","p","e">>,
           value |-> record_format.name]>>)

\* to_dict(line) of the format named returns
ToDict ==
    /\ mode = "call"
    /\ call.op = "to_dict"
    /\ result = Pending
    /\ result' = [returned |-> TRUE,
                  value |-> to_dict(FormatByName(call.name), call.line)]
    /\ UNCHANGED <<mode, dry_run, call, import_vars>>

(***************************************************************************)
(* CSVStream.read called on its own (util.py).                             *)
(***************************************************************************)
\* the length of the long rows sent to the stream that read is called on
BigRowLen == 5000

\* the loop of readinto from the state r of the call: it takes the items of
\* the queue until it returns, or until it waits in get() on an empty queue
RECURSIVE readinto_loop(_)
readinto_loop(r) ==
    IF r.returned \/ r.stream.queue = <<>> THEN r
    ELSE CHOOSE v \in {readinto_loop(next) :
                          next \in {readinto_get(r.stream, r.frame)}} : TRUE

\* CSVStream.read(size): b = bytearray(8192) or bytearray(size),
\* n = self.readinto(b), return b[:n]; blocked when readinto waits for ever
read(stream, size) ==
    CHOOSE v \in {[returned |-> r.returned,
                   blocked |-> ~r.returned,
                   value |-> IF r.returned THEN PySlice(r.b, 0, r.ret)
                             ELSE <<>>,
                   stream |-> r.stream] :
                     r \in {readinto_loop(
                               readinto_enter(stream, read_len(size)))}} : TRUE

\* stream.read(size) returns, or waits for ever for an item
Read ==
    /\ mode = "call"
    /\ call.op = "read"
    /\ result = Pending
    /\ result' = read(call.stream, call.size)
    /\ UNCHANGED <<mode, dry_run, call, import_vars>>

\* the executor classes and the copy methods each of them overrides: the
\* abstract QueryExecutor overrides none; the overriding copy_stream of the
\* PostgreSQL executor has no count parameter
Executors ==
    {"QueryExecutor", "MariaDBQueryExecutor", "SQLiteQueryExecutor",
     "PostgreSQLQueryExecutor"}

overridden_copy(executor) ==
    CASE executor = "MariaDBQueryExecutor" -> {"copy_path"}
      [] executor = "SQLiteQueryExecutor" -> {"copy_stream"}
      [] executor = "PostgreSQLQueryExecutor" -> {"copy_stream"}
      [] OTHER -> {}

accepts_count(executor, method) ==
    ~(executor = "PostgreSQLQueryExecutor" /\ method = "copy_stream")

NOT_IMPLEMENTED == "An executor should implement copy_stream or copy_path"

\* self.copy_path(.., count) and self.copy_stream(.., count) of the generic
\* executor, dispatched on the class of self: an overriding method runs its
\* queries and returns; the generic copy_stream writes the stream to a
\* temporary file and calls self.copy_path on it with count + 1, then
\* removes the file; the generic copy_path opens the path and calls
\* self.copy_stream on it with count + 1; both raise when count > 1.
\* keyword is TRUE when the caller passes count as a keyword argument.
\* trace is the sequence of methods entered, temp_files the number of
\* temporary files left behind.
RECURSIVE executor_copy(_, _, _, _)
executor_copy(executor, method, n, keyword) ==
    LET other == IF method = "copy_stream" THEN "copy_path" ELSE "copy_stream"
        here(generic) == [method |-> method, count |-> n, generic |-> generic]
    IN  IF method \in overridden_copy(executor)
        THEN IF keyword /\ ~accepts_count(executor, method)
             THEN [returned |-> TRUE, raised |-> "TypeError", message |-> "",
                   trace |-> <<>>, temp_files |-> 0]
             ELSE [returned |-> TRUE, raised |-> "", message |-> "",
                   trace |-> <<here(FALSE)>>, temp_files |-> 0]
        ELSE IF n > 1
        THEN [returned |-> TRUE, raised |-> "Exception",
              message |-> NOT_IMPLEMENTED,
              trace |-> <<here(TRUE)>>, temp_files |-> 0]
        ELSE LET next == CHOOSE v \in {executor_copy(executor, other, n + 1,
                                                      TRUE)} : TRUE
                 made == IF method = "copy_stream" THEN 1 ELSE 0
                 removed == IF method = "copy_stream" /\ next.raised = ""
                            THEN 1 ELSE 0
             IN  [returned |-> TRUE, raised |-> next.raised,
                  message |-> next.message,
                  trace |-> <<here(TRUE)>> \o next.trace,
                  temp_files |-> next.temp_files + made - removed]

\* executor.copy_stream(table, stream, encoding, dialect) or
\* executor.copy_path(table, path, encoding, dialect), count left to its
\* default
ExecutorCopy ==
    /\ mode = "call"
    /\ call.op = "executor_copy"
    /\ result = Pending
    /\ result' = executor_copy(call.executor, call.method, 0, FALSE)
    /\ UNCHANGED <<mode, dry_run, call, import_vars>>

\* CALLS_BEGIN
\* the calls made: get_record_format on the lines above; copy_stream of the
\* SQLite executor on the streams above; the imports on registered and
\* unknown identifiers in lower case, capitalised and in upper case;
\* create_table on a database that holds no table, a table of that name
\* with the same or other columns and with rows, or another table beside;
\* to_row and to_dict of each format on its line of the tests, with and
\* without its newline, with "#" in place of every byte of a filler, with
\* a blank, a tab or a newline at one position, or cut short; read on a
\* CSVStream with none, a part or the whole of the header row pending (or
\* ended), whose queue holds rows of 10 and of BigRowLen bytes and end
\* signals, for sizes below, at and above the size of the buffer;
\* copy_stream and copy_path of each executor class
Calls ==
    LET UpperFirst(text, k) ==
            [i \in 1..Len(text) |->
                IF i <= k /\ \E u \in DOMAIN LowerCase : LowerCase[u] = text[i]
                THEN CHOOSE u \in DOMAIN LowerCase : LowerCase[u] = text[i]
                ELSE text[i]]
        names == DOMAIN FANTOIR_CONTEXT_FACTORY_BY_RDBMS
                 \cup {<<"o", "r", "a", "c", "l", "e">>, <<>>}
        rdbms_names ==
            UNION {{UpperFirst(n, k) : k \in {0, 1, Len(n)}} : n \in names}
        other == [name |-> "other",
                  columns |-> <<[name |-> "id", type |-> "integer"]>>,
                  rows |-> <<<<"1">>>>]
        same(table) ==
            {[name |-> table.name, columns |-> columns_of(table),
              rows |-> <<>>],
             [name |-> table.name, columns |-> columns_of(table),
              rows |-> <<[k \in 1..Len(table.fields) |-> "x"]>>],
             [name |-> table.name,
              columns |-> <<[name |-> "id", type |-> "integer"]>>,
              rows |-> <<<<"1">>, <<"2">>>>]}
        databases(table) ==
            {{}, {other}} \cup {{t} : t \in same(table)}
            \cup {{t, other} : t \in same(table)}
        filler(record_format, p) ==
            \E k \in 1..Len(record_format.fields) :
                /\ record_format.fields[k].is_filler
                /\ record_format.fields[k].slice.lo < p
                /\ p <= record_format.fields[k].slice.hi
        big == [k \in 1..BigRowLen |-> "x"]
        small == <<"0", "1", "2", "3", "4", "5", "6", "7", "8", "9">>
        queues == {<<>>, <<None>>, <<big>>, <<big, None>>, <<big, big>>,
                   <<big, big, None>>, <<small, None, big>>,
                   <<small, big, big, small>>}
        read_streams ==
            {[queue |-> q, remaining_bytes |-> p, queue_ended |-> FALSE] :
                q \in queues,
                p \in {<<>>, <<99, 10>>,
                       NewCSVStream(TEST_HEADER).remaining_bytes}}
            \cup {[queue |-> q, remaining_bytes |-> <<>>,
                   queue_ended |-> TRUE] : q \in {<<>>, <<big, big>>}}
        row_lines(name) ==
            LET line == RStripNewline(LineOf(name))
            IN  {line, line \o <<"\n">>,
                 [p \in 1..Len(line) |->
                     IF filler(FormatByName(name), p) THEN "#"
                     ELSE line[p]]}
                \cup {[line EXCEPT ![p] = c] :
                         p \in 1..Len(line), c \in {" ", "\t", "\n"}}
                \cup {PySlice(line, 0, k) : k \in 0..Len(line)}
    IN  {[op |-> "get_record_format", line |-> line] :
            line \in ClassifiedLines}
        \cup UNION {{[op |-> "copy_stream", name |-> name, data |-> data] :
                        data \in CopiedStreams(name)} :
                       name \in FormatNames \ {HEADER_FORMAT.name}}
        \cup {[op |-> "import_fantoir", connection |-> c, rdbms |-> r] :
                 c \in {"None", "connection"}, r \in rdbms_names}
        \cup {[op |-> "import_fantoir_thread",
               connection |-> "new_connection", rdbms |-> r] :
                 r \in rdbms_names}
        \cup UNION {{[op |-> "create_table", table |-> table, db |-> db] :
                        db \in databases(table)} : table \in TablesToCreate}
        \cup {[op |-> "read", stream |-> st, size |-> size] :
                 st \in read_streams,
                 size \in {-1, 0, 5, BUFFER_SIZE - 1, BUFFER_SIZE,
                           BUFFER_SIZE + 1, 2 * BigRowLen + 100}}
        \cup UNION {{[op |-> op, name |-> name, line |-> line] :
                        op \in {"to_row", "to_dict"},
                        line \in row_lines(name)} : name \in FormatNames}
        \cup {[op |-> "executor_copy", executor |-> e, method |-> m] :
                 e \in Executors, m \in {"copy_stream", "copy_path"}}

InitCall ==
    /\ mode = "call"
    /\ dry_run = FALSE
    /\ file = <<>>
    /\ count = 0
    /\ producer_pc = "unstarted"
    /\ end_sent = 0
    /\ send_log = <<>>
    /\ streams = <<>>
    /\ frames = <<>>
    /\ received = <<>>
    /\ last_read = <<>>
    /\ first_zero = <<>>
    /\ sent = <<>>
    /\ consumer_pc = <<>>
    /\ calls = <<>>
    /\ tables = <<>>
    /\ temp_files = <<>>
    /\ orch_pc = "none"
    /\ orch_idx = 0
    /\ call \in Calls
    /\ result = Pending

NextCall ==
    \/ GetRecordFormat
    \/ SQLiteCopyStream
    \/ ImportFantoir
    \/ ImportFantoirThread
    \/ CreateTable
    \/ ToRow
    \/ ToDict
    \/ Read
    \/ ExecutorCopy

SpecCall == InitCall /\ [][NextCall]_vars
\* CALLS_END

\* C14: get_record_format returns the first format, in the order header,
\* direction, commune, voie, whose probe range [0,10), [3,11), [6,10),
\* [41,42) (from 0, the end excluded) is empty once spaces and NUL are
\* stripped, None when there is none, and the four lines of the tests are
\* classified header, direction, commune and voie
C14_FirstBlankProbe ==
    LET ranges == <<[name |-> "header", lo |-> 0, hi |-> 10],
                    [name |-> "direction", lo |-> 3, hi |-> 11],
                    [name |-> "commune", lo |-> 6, hi |-> 10],
                    [name |-> "voie", lo |-> 41, hi |-> 42]>>
        blank(line, r) == \A i \in (r.lo + 1)..Min(r.hi, Len(line)) :
                              line[i] \in {" ", "NUL"}
        hits(line) == {k \in 1..Len(ranges) : blank(line, ranges[k])}
        expected(line) ==
            IF hits(line) = {} THEN "None"
            ELSE ranges[CHOOSE k \in hits(line) :
                            \A j \in hits(line) : k <= j].name
    IN  mode = "call" /\ call.op = "get_record_format" /\ result # Pending =>
            /\ result.value = expected(call.line)
            /\ call.line = HEADER_LINE => result.value = "header"
            /\ call.line = DIRECTION_LINE => result.value = "direction"
            /\ call.line = COMMUNE_LINE => result.value = "commune"
            /\ call.line = VOIE_LINE => result.value = "voie"

\* a direction line with a letter at index 5 has a blank [6,10) and a blank
\* [41,42): it is classified commune, the first of the two
C14_Witness ==
    /\ mode = "call"
    /\ call.op = "get_record_format"
    /\ call.line = [DIRECTION_LINE EXCEPT ![6] = "X"]
    /\ result # Pending
    /\ result.value = "commune"

\* C15 as stated: the copy_stream of the SQLite executor inserts every row
\* after the first line of the stream, in order, and leaves the contents a
\* bulk copy of the same stream leaves (the values of the rows that
\* copy_stream loads)
C15_FallbackEqualsBulkCopy ==
    mode = "call" /\ call.op = "copy_stream" /\ result # Pending =>
        /\ result.raised = "None"
        /\ \E rows \in {copy_stream(call.data)} :
               result.rows = [k \in 1..Len(rows) |-> csv_row(rows[k])]

(***************************************************************************)
(* The imports with a driver that raises a database error.                 *)
(***************************************************************************)
\* the executor calls of write_table, in order
write_table_calls == write_table_before_copy \o write_table_after_copy

\* the calls of write_table at which the driver is made to raise: the
\* creation of the table, the bulk copy, the commit after finalize_copy
DbErrorSteps == {2, 5, 7}

\* the table once the first k calls of write_table were made, the last one
\* raising
table_at_error(table, k) ==
    IF k > 2 THEN [exists |-> TRUE, rows |-> <<>>] ELSE table

\* the driver raises in the k-th call of write_table in the thread of
\* consumer(): nothing catches the exception, the thread terminates, the
\* executor is not closed.  No other load has failed before.
ConsumerDbError(name, k) ==
    /\ mode = "threads" /\ ~dry_run
    /\ \A n \in FormatNames : consumer_pc[n] # "raised"
    /\ \/ /\ consumer_pc[name] = "ready"
          /\ k <= Len(write_table_before_copy)
          /\ calls' = [calls EXCEPT ![name] =
                          <<"new_executor">> \o SubSeq(write_table_calls, 1, k)]
          /\ tables' = [tables EXCEPT ![name] = table_at_error(@, k)]
          /\ UNCHANGED <<streams, frames, received>>
       \/ /\ consumer_pc[name] = "get"
          /\ k = Len(write_table_before_copy)
          /\ UNCHANGED <<calls, tables, streams, frames, received>>
       \/ /\ consumer_pc[name] = "get"
          /\ k > Len(write_table_before_copy)
          /\ streams[name].queue # <<>>
          /\ \E c \in {bulk_copy_get(streams[name], frames[name],
                                     received[name])} :
                 /\ c.over
                 /\ streams' = [streams EXCEPT ![name] = c.stream]
                 /\ frames' = [frames EXCEPT ![name] = c.frame]
                 /\ received' = [received EXCEPT ![name] = c.data]
                 /\ calls' = [calls EXCEPT ![name] =
                        @ \o SubSeq(write_table_after_copy, 1,
                                    k - Len(write_table_before_copy))]
                 /\ \E rows \in {copy_stream(c.data)} :
                        tables' = [tables EXCEPT ![name] =
                                      [exists |-> TRUE, rows |-> rows]]
    /\ consumer_pc' = [consumer_pc EXCEPT ![name] = "raised"]
    /\ UNCHANGED <<config_vars, dispatch_vars, last_read, first_zero, sent,
                   temp_files, orch_pc, orch_idx>>

\* the driver raises in the k-th call of write_table in a turn of the loop
\* of _import_with_temp: the exception leaves _import_with_temp and
\* import_fantoir
TempLoadDbError(k) ==
    /\ mode = "temp" /\ ~dry_run
    /\ orch_pc = "load"
    /\ RECORD_FORMATS[orch_idx].name # HEADER_FORMAT.name
    /\ LET name == RECORD_FORMATS[orch_idx].name
       IN  /\ calls' = [calls EXCEPT ![name] = SubSeq(write_table_calls, 1, k)]
           /\ IF k <= Len(write_table_before_copy)
              THEN tables' = [tables EXCEPT ![name] = table_at_error(@, k)]
              ELSE \E data \in {Encode(temp_files[name].text)} :
                       \E rows \in {copy_stream(data)} :
                           tables' = [tables EXCEPT ![name] =
                                         [exists |-> TRUE, rows |-> rows]]
    /\ orch_pc' = "raised"
    /\ UNCHANGED <<config_vars, dispatch_vars, stream_vars, sent,
                   consumer_pc, temp_files, orch_idx>>

NextDbError ==
    \/ Next
    \/ \E name \in FormatNames : \E k \in DbErrorSteps :
           ConsumerDbError(name, k)
    \/ \E k \in DbErrorSteps : TempLoadDbError(k)

SpecDbError == Init /\ [][NextDbError]_vars

\* C16 as stated: in both modes a database error raised in a step of a
\* table load reaches the caller of the import: the import does not return
\* normally after a load has raised (a consumer thread that has raised, a
\* load of the temp-file mode whose calls stopped short)
C16_DbErrorReachesCaller ==
    orch_pc = "returned" =>
        \A name \in FormatNames :
            IF mode = "threads" THEN consumer_pc[name] # "raised"
            ELSE calls[name] = <<>>
                 \/ Len(calls[name]) = Len(write_table_calls)

\* C17: import_fantoir and import_fantoir_thread raise ValueError exactly
\* for an identifier that, whatever its case, is not registered for their
\* mode (PostgreSQL, SQLite and MariaDB names for import_fantoir, PostgreSQL
\* and MariaDB names only for import_fantoir_thread), having started no
\* thread, opened no file and built no context or executor
C17_UnknownRdbmsRejected ==
    LET pg_maria ==
            {<<"p", "g">>, <<"p", "o", "s", "t", "g", "r", "e", "s">>,
             <<"p", "o", "s", "t", "g", "r", "e", "s", "q", "l">>,
             <<"m", "a", "r", "i", "a">>,
             <<"m", "a", "r", "i", "a", "d", "b">>,
             <<"m", "y", "s", "q", "l">>}
        sqlite == {<<"s", "q", "l", "i", "t", "e">>,
                   <<"s", "q", "l", "i", "t", "e", "3">>}
        names == [import_fantoir |-> pg_maria \cup sqlite,
                  import_fantoir_thread |-> pg_maria]
        same_but_case(text, other) ==
            /\ Len(text) = Len(other)
            /\ \A i \in 1..Len(text) :
                   \/ text[i] = other[i]
                   \/ /\ text[i] \in DOMAIN LowerCase
                      /\ LowerCase[text[i]] = other[i]
    IN  mode = "call" /\ call.op \in DOMAIN names /\ result # Pending =>
            LET known == \E n \in names[call.op] :
                             same_but_case(call.rdbms, n)
            IN  /\ result.raised = (IF known THEN "None" ELSE "ValueError")
                /\ ~known =>
                       \A i \in 1..Len(result.done) :
                           result.done[i] \in
                               {"getLogger", "FakeConnection",
                                "logger.debug", "registry.get"}
                /\ known =>
                       result.done[Len(result.done)]
                           = (IF call.op = "import_fantoir"
                              THEN "_import_with_temp"
                              ELSE "_import_with_threads")

\* import_fantoir_thread has rejected SQLite, written with a capital
C17_Witness ==
    /\ mode = "call"
    /\ call.op = "import_fantoir_thread"
    /\ call.rdbms = <<"S", "q", "l", "i", "t", "e">>
    /\ result # Pending
    /\ result.raised = "ValueError"

\* the tables for which the import has called executor.create_table
CreatedTables ==
    {name \in FormatNames :
        \E i \in 1..Len(calls[name]) : calls[name][i] = "create_table"}

\* one TEXT column per field of the format that is not a filler, in the
\* order of the fields
C18_Columns(name) ==
    LET kept == SelectSeq(FormatByName(name).fields, LAMBDA f : ~f.is_filler)
    IN  [k \in 1..Len(kept) |-> [name |-> kept[k].db_name, type |-> "text"]]

\* C18 as stated: after an import, in both modes, the tables created are
\* direction, commune and voie, each with one TEXT column per field that is
\* not a filler, and no table is created for the header format
C18_NoHeaderTable ==
    orch_pc = "returned" =>
        /\ CreatedTables = {"direction", "commune", "voie"}
        /\ \A name \in CreatedTables :
               /\ created_table[name].name = name
               /\ columns_of(created_table[name]) = C18_Columns(name)

\* C18: after an import the tables created are direction, commune and voie
\* in temp-file mode, and these and header in threaded mode, each named
\* after its format with one TEXT column per field that is not a filler, in
\* declared order; on a real connection these are the tables that exist
C18_TablesPerMode ==
    orch_pc = "returned" =>
        /\ CreatedTables = (IF mode = "threads"
                            THEN {"header", "direction", "commune", "voie"}
                            ELSE {"direction", "commune", "voie"})
        /\ \A name \in CreatedTables :
               /\ created_table[name].name = name
               /\ columns_of(created_table[name]) = C18_Columns(name)
        /\ ~dry_run =>
               \A name \in FormatNames :
                   tables[name].exists <=> name \in CreatedTables

\* a threaded import on real connections has returned and the table header
\* exists
C18_Witness ==
    /\ mode = "threads" /\ ~dry_run
    /\ orch_pc = "returned"
    /\ Len(file) = MaxLines
    /\ tables["header"].exists
    /\ Len(columns_of(created_table["header"])) = 3

\* FantoirSQLIndexProvider.get_indices(fields): a hash index on each field
\* whose name starts with code_
get_indices(fields) ==
    LET code == SelectSeq(fields, LAMBDA field :
                    PySlice(field.field_name, 0, 5)
                        = <<"c", "o", "d", "e", "_">>)
    IN  [k \in 1..Len(code) |->
            [table_name |-> code[k].table_name,
             field_name |-> code[k].field_name,
             type |-> "HASH"]]

\* QueryExecutor.create_indices(table): the indices of the CREATE INDEX
\* queries it executes, one per index of table.indices
create_indices(table) == table.indices

\* the indices created so far on the table of each format
created_indices ==
    [name \in FormatNames |->
        IF \E i \in 1..Len(calls[name]) : calls[name][i] = "create_indices"
        THEN create_indices(created_table[name])
        ELSE <<>>]

\* C19 as stated: once create_indices has run for a table, which is after
\* its data was copied, every index the index provider returns for the
\* fields of the table has been created
C19_ProviderIndicesCreated ==
    \A name \in FormatNames :
        \A i \in 1..Len(calls[name]) :
            calls[name][i] = "create_indices" =>
                /\ \E j \in 1..(i - 1) : calls[name][j] = "copy_stream"
                /\ created_indices[name]
                       = get_indices(created_table[name].fields)

\* C20: after create_table has run for a table, once or twice, whatever
\* tables the database held before (none, or one of that name with any
\* columns and rows), the database holds exactly one table of that name and
\* it has exactly the columns of the table handed to create_table
C20_CreateTableIdempotent ==
    mode = "call" /\ call.op = "create_table" /\ result # Pending =>
        /\ result.raised = "None"
        /\ Cardinality({t \in result.db : t.name = call.table.name}) = 1
        /\ \A t \in result.db :
               t.name = call.table.name =>
                   /\ Len(t.columns) = Len(call.table.fields)
                   /\ \A k \in 1..Len(t.columns) :
                          /\ t.columns[k].name = call.table.fields[k].field_name
                          /\ t.columns[k].type = call.table.fields[k].type

\* create_table has run twice for commune in a database that held a table
\* commune of one column and two rows
C20_Witness ==
    /\ mode = "call"
    /\ call.op = "create_table"
    /\ call.table.name = "commune"
    /\ \E t \in call.db : t.name = "commune" /\ Len(t.columns) = 1
                          /\ Len(t.rows) = 2
    /\ result # Pending
    /\ result.runs = MaxRuns
    /\ \E t \in result.db : t.name = "commune" /\ Len(t.columns) = 14

(***************************************************************************)
(* The rows and the dicts of the records.                                  *)
(***************************************************************************)
\* C21 as stated: to_row(line) is the slices of the line at the byte ranges
\* of the non-filler fields, in declared order, each stripped, joined by
\* single tabs and followed by one newline; no byte of a filler appears in
\* the row (on a line that holds "#" at the bytes of the fillers and nowhere
\* else, the row holds no "#"); and the row has exactly k columns when no
\* stripped slice holds a tab or a newline
C21_RowOfNonFillerSlices ==
    mode = "call" /\ call.op = "to_row" /\ result # Pending =>
        LET fields == FormatByName(call.name).fields
            line == call.line
            kept == SelectSeq(fields, LAMBDA f : ~f.is_filler)
            k == Len(kept)
            cell(i) ==
                Strip(SubSeq(line, kept[i].start,
                             Min(kept[i].start + kept[i].length - 1,
                                 Len(line))))
            in_filler(p) ==
                \E j \in 1..Len(fields) :
                    /\ fields[j].is_filler
                    /\ fields[j].start <= p
                    /\ p < fields[j].start + fields[j].length
            occurrences(c) ==
                Cardinality({p \in 1..Len(result.row) : result.row[p] = c})
        IN  /\ result.row = Join(<<"\t">>, [i \in 1..k |-> cell(i)])
                            \o <<"\n">>
            /\ (\A p \in 1..Len(line) : line[p] = "#" <=> in_filler(p))
                   => occurrences("#") = 0
            /\ (\A i \in 1..k : \A p \in 1..Len(cell(i)) :
                    cell(i)[p] \notin {"\t", "\n"})
                   => occurrences("\t") = k - 1 /\ occurrences("\n") = 1

\* C22: to_dict(line) holds, in this order, one key per non-filler field of
\* the format in declared order, mapped to the slice of the line at the
\* bytes of the field, and then "record_type", mapped to the name of the
\* format; on a commune line the keys are the 15 names of the test
C22_DictKeysInOrder ==
    mode = "call" /\ call.op = "to_dict" /\ result # Pending =>
        LET fields == FormatByName(call.name).fields
            kept == SelectSeq(fields, LAMBDA f : ~f.is_filler)
            k == Len(kept)
            d == result.value
        IN  /\ Len(d) = k + 1
            /\ \A i \in 1..k :
                   /\ d[i].key = kept[i].db_name
                   /\ d[i].value =
                          SubSeq(call.line, kept[i].start,
                                 Min(kept[i].start + kept[i].length - 1,
                                     Len(call.line)))
            /\ d[k + 1].key = <<"r","e","c","o","r","d","_","t","y","p","e">>
            /\ d[k + 1].value = call.name
            /\ call.name = "commune" =>
                   [i \in 1..Len(d) |-> d[i].key] =
                 <<<<"c","o","d","e","_","d","e","p","a","r","t","e","m",
                     "e","n","t">>,
                   <<"c","o","d","e","_","d","i","r","e","c","t","i","o",
                     "n">>,
                   <<"c","o","d","e","_","c","o","m","m","u","n","e">>,
                   <<"c","l","e","_","r","i","v","o","l","i">>,
                   <<"l","i","b","e","l","l","e","_","c","o","m","m","u",
                     "n","e">>,
                   <<"t","y","p","e","_","d","e","_","l","a","_","c","o",
                     "m","m","u","n","e">>,
                   <<"c","a","r","a","c","t","e","r","e","_","r","u","r">>,
                   <<"c","a","r","a","c","t","e","r","e","_","d","e","_",
                     "p","o","p","u","l","a","t","i","o","n">>,
                   <<"p","o","p","u","l","a","t","i","o","n","_","r","e",
                     "e","l","l","e">>,
                   <<"p","o","p","u","l","a","t","i","o","n","_","a","_",
                     "p","a","r","t">>,
                   <<"p","o","p","u","l","a","t","i","o","n","_","f","i",
                     "c","t","i","v","e">>,
                   <<"c","a","r","a","c","t","e","r","e","_","d","a","n",
                     "n","u","l","a","t","i","o","n">>,
                   <<"d","a","t","e","_","d","a","n","n","u","l","a","t",
                     "i","o","n">>,
                   <<"d","a","t","e","_","d","e","_","c","r","e","a","t",
                     "i","o","n","_","d","e","_","l","a","r","t","i","c",
                     "l","e">>,
                   <<"r","e","c","o","r","d","_","t","y","p","e">>>>

\* to_dict of the commune line of the tests has returned its 15 items, the
\* last but one being the date of creation ("1987001" there)
C22_Witness ==
    /\ mode = "call"
    /\ call.op = "to_dict"
    /\ call.name = "commune"
    /\ call.line = COMMUNE_LINE
    /\ result # Pending
    /\ Len(result.value) = 15
    /\ result.value[14].value = <<"1", "9", "8", "7", "0", "0", "1">>
    /\ result.value[15].value = "commune"

(***************************************************************************)
(* The reads of a CSVStream.                                               *)
(***************************************************************************)
\* C23: a readinto on a buffer of N bytes returns at most N bytes, and fewer
\* than N only if the stream had ended before the call or the call took the
\* end signal from the queue; a call that waits in get() has copied fewer
\* than N bytes so far
C23_NoShortRead ==
    [][mode = "stream" /\ sent' = sent /\ frames'[TEST_STREAM].pc = "idle"
           => LET N == last_read'[TEST_STREAM].len_b
                  ret == last_read'[TEST_STREAM].ret
                  stream == streams[TEST_STREAM]
              IN  /\ ret \in 0..N
                  /\ Len(received'[TEST_STREAM])
                         = Len(received[TEST_STREAM]) + ret
                  /\ ret < N =>
                         \/ stream.queue_ended
                         \/ /\ frames[TEST_STREAM].pc = "get"
                            /\ Head(stream.queue) = None
                            /\ streams'[TEST_STREAM].queue_ended
                  /\ frames[TEST_STREAM].pc = "get" =>
                         frames[TEST_STREAM].i < N]_vars

\* a read of 10 bytes made when only the 6 bytes of the header row were
\* pending has returned 10 bytes: the header row and the first 4 bytes of
\* the one row sent; the stream has not ended
C23_Witness ==
    /\ mode = "stream"
    /\ last_read[TEST_STREAM] = [len_b |-> 10, ret |-> 10, at_end |-> FALSE]
    /\ received[TEST_STREAM] = <<97, 9, 98, 9, 99, 10, 48, 49, 50, 51>>
    /\ Len(sent) = 1
    /\ ~streams[TEST_STREAM].queue_ended
    /\ Len(streams[TEST_STREAM].remaining_bytes) = 6

\* C24: a read for N bytes made when at least N bytes are pending returns
\* at once the first N pending bytes, keeps the others pending and leaves
\* the queue as it is; a call waits in get() only when it asked for more
\* bytes than were pending
C24_PendingBytesServedFirst ==
    [][mode = "stream" /\ sent' = sent /\ frames[TEST_STREAM].pc = "idle"
           => LET pending == streams[TEST_STREAM].remaining_bytes
                  N == last_read'[TEST_STREAM].len_b
              IN  /\ frames'[TEST_STREAM].pc = "get" =>
                         frames'[TEST_STREAM].len_b > Len(pending)
                  /\ frames'[TEST_STREAM].pc = "idle" /\ N <= Len(pending) =>
                         /\ last_read'[TEST_STREAM].ret = N
                         /\ received'[TEST_STREAM] =
                                received[TEST_STREAM]
                                \o SubSeq(pending, 1, N)
                         /\ streams'[TEST_STREAM].remaining_bytes =
                                SubSeq(pending, N + 1, Len(pending))
                         /\ streams'[TEST_STREAM].queue =
                                streams[TEST_STREAM].queue]_vars

\* before anything was sent, a read of 2 bytes has returned the first two
\* bytes of the header row; the four others are pending
C24_Witness ==
    /\ mode = "stream"
    /\ sent = <<>>
    /\ streams[TEST_STREAM].queue = <<>>
    /\ last_read[TEST_STREAM] = [len_b |-> 2, ret |-> 2, at_end |-> FALSE]
    /\ received[TEST_STREAM] = <<97, 9>>
    /\ streams[TEST_STREAM].remaining_bytes = <<98, 9, 99, 10>>
    /\ frames[TEST_STREAM].pc = "idle"

\* C25: the flag _queue_ended is false at first; it becomes true exactly in
\* the step that takes the end signal from the queue, and stays true; once
\* it is true nothing is taken from the queue and nothing more is returned,
\* so the queue holds every item sent after the end signal
C25_EndedOnceForAll ==
    [][mode = "stream"
           => LET stream == streams[TEST_STREAM]
                  after == streams'[TEST_STREAM]
                  takes == after.queue # stream.queue /\ sent' = sent
                  ends == {k \in 1..Len(sent') : sent'[k] = None}
              IN  /\ stream.queue_ended => after.queue_ended
                  /\ ~stream.queue_ended /\ after.queue_ended =>
                         takes /\ Head(stream.queue) = None
                  /\ takes /\ Head(stream.queue) = None =>
                         ~stream.queue_ended /\ after.queue_ended
                  /\ stream.queue_ended =>
                         /\ ~takes
                         /\ received'[TEST_STREAM] = received[TEST_STREAM]
                  /\ after.queue_ended =>
                         after.queue =
                             SubSeq(sent', SetMin(ends) + 1, Len(sent'))]_vars

\* a row sent after the end signal is still in the queue after a read of
\* the ended stream has returned 0 bytes
C25_Witness ==
    /\ mode = "stream"
    /\ streams[TEST_STREAM].queue_ended
    /\ Len(sent) = 2 /\ sent[1] = None /\ sent[2] # None /\ sent[2] # <<>>
    /\ streams[TEST_STREAM].queue = <<sent[2]>>
    /\ last_read[TEST_STREAM].at_end
    /\ last_read[TEST_STREAM].len_b > 0
    /\ last_read[TEST_STREAM].ret = 0
    /\ received[TEST_STREAM] = <<97, 9, 98, 9, 99, 10>>

(***************************************************************************)
(* The order of the loads and of the threads.                              *)
(***************************************************************************)
\* C26: the executor calls of the load of a table are made in the order
\* create_table (a drop then a create), prepare_copy, commit, the bulk copy,
\* finalize_copy, commit, create_indices, commit; in threaded mode
\* new_executor comes before them and close after the last commit; no call
\* after the bulk copy is made before the copy has read its stream to the end
C26_LoadCallOrder ==
    mode \in {"threads", "temp"} =>
        \A name \in FormatNames :
            LET load == <<"drop_table", "create_table", "prepare_copy",
                          "commit", "copy_stream", "finalize_copy", "commit",
                          "create_indices", "commit">>
                order == IF mode = "threads"
                         THEN <<"new_executor">> \o load \o <<"close">>
                         ELSE load
                after_copy == {"finalize_copy", "create_indices", "close"}
                made == {calls[name][k] : k \in 1..Len(calls[name])}
            IN  /\ IsPrefix(calls[name], order)
                /\ ~dry_run /\ made \cap after_copy # {} =>
                       /\ tables[name].exists
                       /\ IF mode = "threads"
                          THEN /\ streams[name].queue_ended
                               /\ frames[name].pc = "idle"
                               /\ tables[name].rows =
                                      copy_stream(received[name])
                          ELSE /\ ~temp_files[name].open
                               /\ tables[name].rows =
                                      copy_stream(
                                          Encode(temp_files[name].text))

\* in threaded mode the consumer of commune has copied one row, made the
\* calls that follow the copy and closed its executor, while the consumer
\* of voie is still in its bulk copy
C26_Witness ==
    /\ mode = "threads" /\ ~dry_run
    /\ Len(calls["commune"]) = 11
    /\ calls["commune"][11] = "close"
    /\ Len(tables["commune"].rows) = 1
    /\ calls["voie"] = <<"new_executor">> \o write_table_before_copy
    /\ consumer_pc["voie"] = "get"

\* get_dialect() assigns the attributes delimiter and quotechar of the class
\* csv.unix_dialect, an object of the module csv that all the threads of the
\* process share; copy_table calls it before copy_stream.  The consumer
\* threads that have made these assignments so far
unix_dialect_writers ==
    {name \in DOMAIN consumer_pc :
        \E k \in 1..Len(calls[name]) : calls[name][k] = "copy_stream"}

\* C27 as stated: in threaded mode no mutable object other than the queues
\* is written by more than one thread; for the class csv.unix_dialect: at
\* most one thread has assigned its attributes
C27_OnlyQueuesWrittenByThreads ==
    mode = "threads" => Cardinality(unix_dialect_writers) <= 1

\* C28: in threaded mode a step that calls the executor of a table or reads
\* the CSVStream of that table is a step of the started consumer thread of
\* that table, and of no other thread; the first call of that thread is its
\* only new_executor; a step that puts an item in a queue or reads the
\* input file is a step of the producer thread, and of no consumer
C28_OneThreadPerResource ==
    [][mode = "threads" =>
          \A n \in FormatNames :
              LET executes == calls'[n] # calls[n]
                  reads == \/ Len(streams'[n].queue) < Len(streams[n].queue)
                           \/ received'[n] # received[n]
                           \/ frames'[n] # frames[n]
                           \/ streams'[n].remaining_bytes
                                  # streams[n].remaining_bytes
                           \/ streams'[n].queue_ended
                                  # streams[n].queue_ended
                  writes == Len(streams'[n].queue) > Len(streams[n].queue)
                  producer_still ==
                      /\ file' = file /\ send_log' = send_log
                      /\ producer_pc' = producer_pc /\ end_sent' = end_sent
                  consumers_still(names) ==
                      \A m \in names :
                          /\ consumer_pc'[m] = consumer_pc[m]
                          /\ calls'[m] = calls[m]
                          /\ tables'[m] = tables[m]
                          /\ received'[m] = received[m]
                          /\ frames'[m] = frames[m]
                  executors == {k \in 1..Len(calls'[n]) :
                                   calls'[n][k] = "new_executor"}
              IN  /\ executes \/ reads =>
                         /\ consumer_pc[n] \in {"ready", "get"}
                         /\ consumers_still(FormatNames \ {n})
                         /\ producer_still
                         /\ orch_pc' = orch_pc
                  /\ calls'[n] # <<>> => executors = {1}
                  /\ writes \/ file' # file =>
                         /\ producer_pc \in {"dispatch", "end_signals"}
                         /\ consumers_still(FormatNames)
                         /\ orch_pc' = orch_pc]_vars

\* the producer has read a commune line and a voie line; the consumer of
\* commune has loaded its row and closed its executor, the consumer of voie
\* has taken its row from its queue and waits there, each with its own
\* executor
C28_Witness ==
    /\ mode = "threads" /\ ~dry_run
    /\ file = <<"commune", "voie">>
    /\ consumer_pc["commune"] = "done"
    /\ Len(tables["commune"].rows) = 1
    /\ consumer_pc["voie"] = "get"
    /\ frames["voie"].i > Len(stream_header_bytes["voie"])
    /\ calls["commune"][1] = "new_executor"
    /\ calls["voie"][1] = "new_executor"

\* C29: in threaded mode there is one consumer thread for each record
\* format and one producer thread; while a consumer thread is not started
\* the producer thread is not started either, no line of the input was read
\* and no queue holds an item
C29_ConsumersStartedFirst ==
    mode = "threads" =>
        /\ DOMAIN consumer_pc = {RECORD_FORMATS[k].name :
                                    k \in 1..Len(RECORD_FORMATS)}
        /\ Cardinality(DOMAIN consumer_pc) = Len(RECORD_FORMATS)
        /\ (\E n \in DOMAIN consumer_pc : consumer_pc[n] = "unstarted") =>
               /\ producer_pc = "unstarted"
               /\ orch_pc = "start"
               /\ file = <<>> /\ send_log = <<>>
               /\ \A n \in DOMAIN streams : streams[n].queue = <<>>

\* the first row is in the queue of voie; the four consumer threads were
\* started, and the one of voie has not run yet
C29_Witness ==
    /\ mode = "threads"
    /\ file = <<"voie">>
    /\ Len(streams["voie"].queue) = 1
    /\ consumer_pc["voie"] = "ready"
    /\ \A n \in FormatNames : consumer_pc[n] # "unstarted"
    /\ orch_pc = "join"

\* C30: in temp-file mode, once an executor call of a table load was made
\* the dispatch is over and every temporary file is closed; a load begins
\* only after the loads of the formats declared before it (the header
\* aside) are complete; no call is made and no table is created for the
\* header format
C30_TempModeSequential ==
    mode = "temp" =>
        LET loaded == [k \in 1..Len(RECORD_FORMATS) |->
                          calls[RECORD_FORMATS[k].name]]
            is_header(k) == RECORD_FORMATS[k].name = "header"
        IN  /\ \A k \in 1..Len(loaded) :
                   loaded[k] # <<>> =>
                       /\ producer_pc = "done"
                       /\ orch_pc \in {"load", "returned"}
                       /\ \A n \in DOMAIN temp_files : ~temp_files[n].open
                       /\ Len(loaded[k]) = 9
                       /\ \A j \in 1..(k - 1) :
                              ~is_header(j) => Len(loaded[j]) = 9
            /\ \A k \in 1..Len(loaded) :
                   is_header(k) =>
                       loaded[k] = <<>> /\ ~tables["header"].exists
            /\ orch_pc = "returned" =>
                   \A k \in 1..Len(loaded) :
                       ~is_header(k) => Len(loaded[k]) = 9

\* the import of a header line and a voie line has returned: the row of the
\* header is in its temporary file and no table header exists; the three
\* other tables were loaded from their files
C30_Witness ==
    /\ mode = "temp" /\ ~dry_run
    /\ file = <<"header", "voie">>
    /\ orch_pc = "returned"
    /\ temp_files["header"].text # <<>>
    /\ ~tables["header"].exists
    /\ calls["header"] = <<>>
    /\ temp_files["voie"].text # <<>>
    /\ \A n \in FormatNames \ {"header"} :
           tables[n].exists /\ Len(calls[n]) = 9

(***************************************************************************)
(* The classification of the lines.                                        *)
(***************************************************************************)
\* C31 as stated: a line whose first byte is NUL is classified header by
\* get_record_format, in import_fantoir.py and in fantoir.py, whatever the
\* rest of the line
C31_NulLineIsHeader ==
    /\ mode = "call" /\ call.op = "get_record_format" /\ result # Pending
    /\ call.line # <<>> /\ call.line[1] = "NUL"
    => result.value = "header" /\ result.parser = "header"

(***************************************************************************)
(* The lines that are not routed.                                          *)
(***************************************************************************)
\* C32 as stated: the sentinel line ends the iteration over the input: it
\* is sent to no destination, and no line read after it is routed
C32_SentinelEndsIteration ==
    mode \in {"threads", "temp"} =>
        \A k \in 1..Len(file) :
            file[k] = "sentinel" =>
                \A j \in 1..Len(send_log) : send_log[j].line < k

\* C32: the sentinel line is skipped before it is classified: it is sent
\* to no destination and is not counted; the iteration goes on, and a line
\* read after it is counted and routed as any other line
C32_SentinelSkipped ==
    mode \in {"threads", "temp"} =>
        LET routed == {"header", "direction", "commune", "commune_2", "voie"}
            sends(k) == {j \in 1..Len(send_log) : send_log[j].line = k}
            lines_read == IF ProducerRaised THEN Len(file) - 1 ELSE Len(file)
        IN  /\ \A k \in 1..lines_read :
                   /\ file[k] = "sentinel" => sends(k) = {}
                   /\ file[k] \in routed => Cardinality(sends(k)) = 1
            /\ count = Cardinality({k \in 1..lines_read : file[k] # "sentinel"})

\* a voie line read after the sentinel line was counted and sent to voie
C32_Witness ==
    /\ mode \in {"threads", "temp"}
    /\ file = <<"sentinel", "voie">>
    /\ count = 1
    /\ Len(send_log) >= 1
    /\ send_log[1] = [name |-> "voie", line |-> 2]

\* C33: a line that matches no record format makes nothing fail: the
\* dispatch raises only on a line that cannot be decoded; nothing is sent
\* for the unmatched line; the line is counted; and every line read after
\* it that has a format is sent once
C33_UnknownLineDropped ==
    mode \in {"threads", "temp"} =>
        LET routed == {"header", "direction", "commune", "commune_2", "voie"}
            sends(k) == {j \in 1..Len(send_log) : send_log[j].line = k}
            lines_read == IF ProducerRaised THEN Len(file) - 1 ELSE Len(file)
            unknown == {k \in 1..lines_read : file[k] = "unknown"}
        IN  /\ producer_pc = "failed" \/ orch_pc = "raised" => ProducerRaised
            /\ \A k \in unknown :
                   /\ sends(k) = {}
                   /\ \A j \in (k + 1)..lines_read :
                          file[j] \in routed => Cardinality(sends(j)) = 1
            /\ count >= Cardinality(unknown)
            /\ count = lines_read - Cardinality({k \in 1..lines_read :
                                              file[k] = "sentinel"})

\* a line without format was read, then a commune line: both are counted,
\* only the second is sent, and the dispatch has come to the end of the input
C33_Witness ==
    /\ mode \in {"threads", "temp"}
    /\ file = <<"unknown", "commune">>
    /\ count = 2
    /\ send_log # <<>>
    /\ send_log[1] = [name |-> "commune", line |-> 2]
    /\ \A j \in 2..Len(send_log) : send_log[j].line = 0
    /\ producer_pc = "done"

C35_PendingIsSuffix ==
    mode = "stream" =>
        LET stream == streams[TEST_STREAM]
            pending == stream.remaining_bytes
            taken == Len(sent) - Len(stream.queue)
            IsSuffix(s, t) ==
                \E k \in 0..Len(t) : s = SubSeq(t, k + 1, Len(t))
        IN  /\ frames[TEST_STREAM].pc = "get" => pending = <<>>
            /\ taken = 0 => IsSuffix(pending, TEST_HEADER_BYTES)
            /\ taken > 0 =>
                   IF sent[taken] = None THEN pending = <<>>
                   ELSE IsSuffix(pending, Encode(sent[taken]))
            /\ stream.queue_ended => pending = <<>>

\* after a read of 1 byte and a read of 10 bytes the last five bytes of the
\* row of ten bytes are pending, the row that was sent after it is still in
\* the queue
C35_Witness ==
    /\ mode = "stream"
    /\ frames[TEST_STREAM].pc = "idle"
    /\ streams[TEST_STREAM].remaining_bytes = <<53, 54, 55, 56, 57>>
    /\ Len(sent) = 2
    /\ streams[TEST_STREAM].queue = <<<<"x", "\n">>>>
    /\ last_read[TEST_STREAM].len_b = 10
    /\ Len(received[TEST_STREAM]) = 11

\* C36 as stated: get_record_format of fantoir.py and get_record_format of
\* import_fantoir.py return the same record format on every line
C36_ClassifiersAgree ==
    mode = "call" /\ call.op = "get_record_format" /\ result # Pending =>
        result.value = result.parser

\* C37: read(size) returns at most 8192 bytes; for size < 0 or size >= 8192
\* a call that returns gives exactly 8192 bytes unless the stream has ended
\* when it returns; for 0 <= size < 8192 it gives exactly size bytes unless
\* the stream has ended when it returns; what it does not return stays
\* pending or in the queue
C37_ReadAtMostBufferSize ==
    mode = "call" /\ call.op = "read" /\ result # Pending =>
        LET n == Len(result.value)
            size == call.size
            ended == result.stream.queue_ended
        IN  /\ n <= 8192
            /\ result.returned /\ (size < 0 \/ size >= 8192) =>
                   n = 8192 \/ ended
            /\ result.returned /\ size >= 0 /\ size < 8192 =>
                   n = size \/ ended
            /\ result.blocked =>
                   ~ended /\ result.stream.queue = <<>> /\ n = 0

\* read(-1) on a stream whose queue holds two rows of 5000 bytes and the end
\* signal has returned 8192 bytes: the header row, the first row and a part
\* of the second; the rest is pending, the end signal is still in the queue
C37_Witness ==
    /\ mode = "call"
    /\ call.op = "read"
    /\ call.size = -1
    /\ Len(call.stream.remaining_bytes) = 6
    /\ Len(call.stream.queue) = 3
    /\ result # Pending
    /\ result.returned
    /\ Len(result.value) = 8192
    /\ Len(result.stream.remaining_bytes) = 6 + 2 * BigRowLen - 8192
    /\ result.stream.queue = <<None>>
    /\ ~result.stream.queue_ended

\* C38 as stated: on an executor that overrides neither copy_stream nor
\* copy_path, a call to either raises "An executor should implement
\* copy_stream or copy_path" after at most one round trip (the method, the
\* other one, the method again); on an executor that overrides one of the
\* two, a call to the other completes with exactly one delegation to the
\* overriding method
C38_CopyGuardOrOneDelegation ==
    mode = "call" /\ call.op = "executor_copy" /\ result # Pending =>
        LET over == overridden_copy(call.executor)
            other == IF call.method = "copy_stream" THEN "copy_path"
                     ELSE "copy_stream"
        IN  /\ over = {} =>
                   /\ result.raised = "Exception"
                   /\ result.message = NOT_IMPLEMENTED
                   /\ Len(result.trace) <= 3
            /\ over = {other} =>
                   /\ result.raised = ""
                   /\ result.trace =
                          <<[method |-> call.method, count |-> 0,
                             generic |-> TRUE],
                            [method |-> other, count |-> 1,
                             generic |-> FALSE]>>

\* C39 as stated: in every record format of the catalog each field has
\* start >= 1 and length >= 1, the fields are listed in increasing start
\* offset, and the byte ranges [start-1, start-1+length) of two fields of a
\* format never share a byte
C39_FieldRangesDisjoint ==
    mode = "call" =>
        \A k \in 1..Len(RECORD_FORMATS) :
            LET fields == RECORD_FORMATS[k].fields
                lo(i) == fields[i].start - 1
                hi(i) == fields[i].start - 1 + fields[i].length
            IN  /\ \A i \in 1..Len(fields) :
                       fields[i].start >= 1 /\ fields[i].length >= 1
                /\ \A i \in 1..(Len(fields) - 1) :
                       fields[i].start < fields[i + 1].start
                /\ \A i, j \in 1..Len(fields) :
                       i # j => ~(\E b \in lo(i)..(hi(i) - 1) :
                                      lo(j) <= b /\ b < hi(j))
====
